---- MODULE Spec2Model ----
(***************************************************************************)
(* A model of mesmerize.ino: the EEPROM persistence layer (seed and        *)
(* high score table), the scoring function, the round state machine        *)
(* (runRound) and the game loop (runGame) with the configuration menu.     *)
(*                                                                         *)
(* Integer widths are those of the target (Arduino Uno, AVR): byte 8 bit,  *)
(* unsigned short / unsigned int 16 bit, unsigned long 32 bit.             *)
(***************************************************************************)
EXTENDS Integers, Sequences, FiniteSets, Bags, TLC

(***************************************************************************)
(* Program constants (mesmerize.ino, #define section).                     *)
(***************************************************************************)
EEP_SEED_ADDRESS == 0
EEP_HIGH_SCORE_TABLE_ADDRESS == 4
EEP_HIGH_SCORE_TABLE_SIZE == 10
EEP_ALIAS_LENGTH == 4
\* EEPROM.length() of the target board: addresses 0..1023.
EEPROM_LENGTH == 1024
\* sizeof(unsigned long), sizeof(char), sizeof(HighScore) on the target.
SIZEOF_ULONG == 4
SIZEOF_LONG == 4
SIZEOF_CHAR == 1
SIZEOF_HIGHSCORE == 8

GAMEP_ROUND_COUNT_MIN == 1
GAMEP_ROUND_COUNT_MAX == 100
GAMEP_ROUND_COUNT_INF == 1000
GAMEP_LIFE_COUNT_MIN == 1
GAMEP_LIFE_COUNT_MAX == 10
ROUNDP_SEQUENCE_LENGTH_MIN == 4
ROUNDP_SEQUENCE_LENGTH_MAX == 15
ROUNDP_UNIQUE_SYMBOLS_MIN == 2
ROUNDP_UNIQUE_SYMBOLS_MAX == 4
ROUNDP_DISPLAY_TIME_MIN == 500
ROUNDP_DISPLAY_TIME_MAX == 2500
ROUNDP_INPUT_TIME_MIN == 500
ROUNDP_INPUT_TIME_MAX == 3000
ROUNDP_SYMBOLS_LENGTH == 4

\* 2^16: the range of unsigned short / unsigned int on the target, and of
\* each half of an unsigned long.
UINT16 == 65536

(***************************************************************************)
(* Bounds of the model.                                                    *)
(***************************************************************************)
\* Number of eep_addHighScore calls explored by the persistence harness.
MaxAdds == 3

\* Longest game, in rounds, in which the player plays freely.
MaxFreeRounds == 2

\* Largest life count configured for Practice Mode.
MaxLives == 2

\* Longest sequence configured for Practice Mode.
MaxSeqLen == 5

\* The latencies of the player: the two thresholds of inputTimeToScore that
\* the round bonus also turns on.
QuarterSecond == 250
HalfSecond == 500

\* Milliseconds by which a timed-out disp_timedButtonPress overruns END_TIME.
TimeoutOvershoots == {0, 1}

\* Aliases entered in getAlias: three letters and the terminator.
GameAliases == {<<65, 65, 65, 0>>}

\* Values of random(0, 16) explored for the next seed.
NextSeeds == {0, 15}

\* Largest symbol catalog handed to chooseRandomSymbols on its own.
MaxCatalog == 4

\* Longest sequence asked of generateSymbolSequence on its own.
MaxGenLen == 5

\* Longest sequence asked of generateSymbolSequence when its passes are
\* followed without end.
MaxPassLen == 4

\* Calls of eep_addHighScore followed one byte at a time.
MaxInterruptAdds == 2

\* Iterations of the while loop of randomRoundComplexity that are followed.
MaxLoopIterations == 8

VARIABLES
    eeprom,            \* the EEPROM: the cells that differ from the erased value
    pc,                \* position of the single control thread
    lastCall,          \* the most recent persistence call: op, argument, result, storage before it
    addCalls,          \* number of eep_addHighScore calls made by the harness
    tableInitialised,  \* eep_initialiseHighScoreTable has run on this storage
    menuState,         \* runMenu: state (PRACTICE, STORY, SCORE, OPTIONS)
    configState,       \* runConfigurationMenu: state (END while the menu is not open)
    difficulty,        \* runMenu: difficulty (EASY, MEDIUM, HARD, MIRROR)
    configProfile,     \* runMenu: the configured Practice GameProfile
    runningProfile,    \* runMenu: the GameProfile handed to runGame
    roundIndex,        \* runGame: loop counter i
    remainingLives,    \* runGame: remainingLives (unsigned short)
    gameLost,          \* runGame: gameLost
    bonusPoints,       \* runGame: bonusPoints (unsigned int), 0 until awarded
    state,             \* runRound: state of the state machine
    roundSymbols,      \* runRound: references to the symbols in play, indexed from 0
    sequence,          \* runRound: the sequence of symbol references, indexed from 0
    input,             \* runRound: the byte returned by disp_timedButtonPress
    inputCount,        \* runRound: inputCount (unsigned short)
    timeToInput,       \* runRound: time the last input took, in ms (unsigned int)
    totalInputTime,    \* runRound: totalInputTime (unsigned int)
    scoreIncrement,    \* runRound: points awarded for the last correct input
    roundWon,          \* runRound: roundWon
    latencySum,        \* history: exact sum of the latencies reported in this round
    allFast,           \* history: every input of the game so far was correct within 250 ms
    tableAtEntry,      \* history: the high score table when runGame was entered
    buttonDown,        \* disp_timedButtonPress: static bool buttonDown
    correctLatencies,  \* history: bag of the latencies of the latest round's inputs that map to the expected symbol
    allMatched,        \* history: every input of the latest round so far maps to the expected symbol
    scoreAtRoundEntry, \* history: the score when the latest round was entered
    lostRounds,        \* history: rounds of the game that runRound returned false for
    harnessCall,       \* the arguments of the function that is called on its own
    rngSeed            \* randomSeed: the argument of the latest call

eepVars == <<eeprom, lastCall, addCalls, tableInitialised>>
menuVars == <<menuState, configState, difficulty, configProfile, runningProfile>>
gameVars == <<roundIndex, remainingLives, gameLost, bonusPoints, allFast, tableAtEntry>>
roundVars == <<state, roundSymbols, sequence, input, inputCount, timeToInput,
               totalInputTime, scoreIncrement, roundWon, latencySum>>
histVars == <<correctLatencies, allMatched, scoreAtRoundEntry, lostRounds>>
vars == <<pc, eepVars, menuVars, gameVars, roundVars, buttonDown, histVars, harnessCall,
          rngSeed>>

(***************************************************************************)
(* unsigned long (32 bit).  A value v is held as [hi |-> v \div 2^16,      *)
(* lo |-> v % 2^16], so that the whole 32 bit range is representable.      *)
(***************************************************************************)
\* The unsigned long with value n, for 0 <= n < 2^31.
UL(n) == [hi |-> n \div UINT16, lo |-> n % UINT16]

\* a + d in unsigned long arithmetic (wraps modulo 2^32); d may be negative.
ULAdd(a, d) ==
    LET lo == a.lo + d
    IN  [hi |-> (a.hi + (lo \div UINT16)) % UINT16, lo |-> lo % UINT16]

\* Arguments are passed by value in the code: Evaluated(v) holds of every v and
\* makes the model compute v at that point, before it is passed on.
Evaluated(v) == v = v

\* a < b and a > b on unsigned long.
ULLess(a, b) == a.hi < b.hi \/ (a.hi = b.hi /\ a.lo < b.lo)

ULGreater(a, b) == ULLess(b, a)

\* (byte)(data & 0xff)
ULLowByte(data) == data.lo % 256

\* A loop that forgets the shift.
ULShiftRight8_None(data) == data

\* data >> 8
ULShiftRight8(data) ==
    [hi |-> data.hi \div 256, lo |-> (data.hi % 256) * 256 + (data.lo \div 256)]

\* data << 8
ULShiftLeft8(data) ==
    [hi |-> ((data.hi % 256) * 256) + (data.lo \div 256), lo |-> (data.lo % 256) * 256]

\* (byte)(data & 0xff) of a char, which is signed on the target.
CharLowByte(data) == data % 256

\* data >> 8 of a char (arithmetic shift).
CharShiftRight8(data) == (data - (data % 256)) \div 256

\* Conversion of an unsigned long buffer to the returned char (signed 8 bit).
ToChar(v) == IF v.lo % 256 >= 128 THEN (v.lo % 256) - 256 ELSE v.lo % 256

(***************************************************************************)
(* EEPROM functions.  Each takes the storage contents mem and returns the  *)
(* new contents (writers) or the value read (readers).                     *)
(***************************************************************************)

\* The value of an erased EEPROM cell.
ErasedByte == 255

\* The storage is held as the function from the addresses whose cell differs
\* from ErasedByte to the value of the cell; every other cell of
\* 0..EEPROM_LENGTH-1 holds ErasedByte.
ErasedEeprom == [a \in {} |-> ErasedByte]

\* EEPROM.read(a).
EEPROM_read(mem, a) == IF a \in DOMAIN mem THEN mem[a] ELSE ErasedByte

\* EEPROM.update(a, value).
EEPROM_update(mem, a, value) ==
    IF value = ErasedByte
    THEN [x \in DOMAIN mem \ {a} |-> mem[x]]
    ELSE [x \in DOMAIN mem \cup {a} |-> IF x = a THEN value ELSE mem[x]]

\* for(i = 0; i < sizeof(unsigned long); i++){
\*   EEPROM.update(address + i, data & 0xff); data = data >> 8; }
RECURSIVE WriteULongBytes(_, _, _, _)
WriteULongBytes(mem, data, address, i) ==
    IF i >= SIZEOF_ULONG THEN mem
    ELSE WriteULongBytes(EEPROM_update(mem, address + i, ULLowByte(data)),
                         ULShiftRight8(data), address, i + 1)

\* for(i = 0; i < sizeof(char); i++){
\*   EEPROM.update(address + i, data & 0xff); data = data >> 8; }
RECURSIVE WriteCharBytes(_, _, _, _)
WriteCharBytes(mem, data, address, i) ==
    IF i >= SIZEOF_CHAR THEN mem
    ELSE WriteCharBytes(EEPROM_update(mem, address + i, CharLowByte(data)),
                        CharShiftRight8(data), address, i + 1)

\* for(i = size - 1; i >= 0; i--){
\*   buffer = buffer << 8; buffer += EEPROM.read(address + i); }
RECURSIVE ReadBytes(_, _, _, _)
ReadBytes(mem, address, i, buffer) ==
    IF i < 0 THEN buffer
    ELSE ReadBytes(mem, address, i - 1, ULAdd(ULShiftLeft8(buffer), EEPROM_read(mem, address + i)))

\* A write that does not test the address.
eep_writeULong_Unchecked(mem, data, address) == WriteULongBytes(mem, data, address, 0)

eep_writeULong(mem, data, address) ==
    IF address <= EEPROM_LENGTH - SIZEOF_ULONG
    THEN WriteULongBytes(mem, data, address, 0)
    ELSE mem

eep_readULong(mem, address) ==
    IF address <= EEPROM_LENGTH - SIZEOF_ULONG
    THEN ReadBytes(mem, address, SIZEOF_ULONG - 1, UL(0))
    ELSE UL(0)

eep_writeChar(mem, data, address) ==
    IF address <= EEPROM_LENGTH - SIZEOF_CHAR
    THEN WriteCharBytes(mem, data, address, 0)
    ELSE mem

eep_readChar(mem, address) ==
    IF address <= EEPROM_LENGTH - SIZEOF_CHAR
    THEN ToChar(ReadBytes(mem, address, SIZEOF_CHAR - 1, UL(0)))
    ELSE 0

\* A HighScore is [score |-> unsigned long, alias |-> <<c0, c1, c2, c3>>];
\* alias[i] of the code is alias[i + 1] here.
RECURSIVE WriteAlias(_, _, _, _)
WriteAlias(mem, alias, actualIndex, i) ==
    IF i >= EEP_ALIAS_LENGTH THEN mem
    ELSE WriteAlias(eep_writeChar(mem, alias[i + 1], actualIndex + SIZEOF_ULONG + i * SIZEOF_CHAR),
                    alias, actualIndex, i + 1)

\* A table whose records are laid out four bytes apart.
eep_writeHighScore_Packed(mem, hs, tableIndex) ==
    IF tableIndex < EEP_HIGH_SCORE_TABLE_SIZE
    THEN LET actualIndex == EEP_HIGH_SCORE_TABLE_ADDRESS + tableIndex * SIZEOF_ULONG
         IN  WriteAlias(eep_writeULong(mem, hs.score, actualIndex), hs.alias, actualIndex, 0)
    ELSE mem

eep_writeHighScore(mem, hs, tableIndex) ==
    IF tableIndex < EEP_HIGH_SCORE_TABLE_SIZE
    THEN LET actualIndex == EEP_HIGH_SCORE_TABLE_ADDRESS + tableIndex * SIZEOF_HIGHSCORE
         IN  WriteAlias(eep_writeULong(mem, hs.score, actualIndex), hs.alias, actualIndex, 0)
    ELSE mem

\* tableIndex is always < EEP_HIGH_SCORE_TABLE_SIZE at the call sites modelled.
eep_readHighScore(mem, tableIndex) ==
    LET actualAddress == EEP_HIGH_SCORE_TABLE_ADDRESS + SIZEOF_HIGHSCORE * tableIndex
    IN  [score |-> eep_readULong(mem, actualAddress),
         alias |-> [i \in 1..EEP_ALIAS_LENGTH |->
                       eep_readChar(mem, actualAddress + SIZEOF_ULONG + (i - 1) * SIZEOF_CHAR)]]

\* The table as an array indexed 0..9.
eep_readHighScoreTable(mem) ==
    [i \in 0..(EEP_HIGH_SCORE_TABLE_SIZE - 1) |-> eep_readHighScore(mem, i)]

eep_writeSeed(mem, seed) == eep_writeULong(mem, seed, EEP_SEED_ADDRESS)

eep_readSeed(mem) == eep_readULong(mem, EEP_SEED_ADDRESS)

\* for(i = 0; i < SIZE && !isHighScore; i++) if(table[i].score < score) isHighScore = true;
eep_isHighScore_AnyNotGreater(mem, score) ==
    \E i \in 0..(EEP_HIGH_SCORE_TABLE_SIZE - 1) : ~ULGreater(eep_readHighScoreTable(mem)[i].score, score)

eep_isHighScore(mem, score) ==
    \E i \in 0..(EEP_HIGH_SCORE_TABLE_SIZE - 1) : ULLess(eep_readHighScoreTable(mem)[i].score, score)

\* An inner loop that moves on to every record that is not smaller.
RECURSIVE SortMaxIndex_LastMaximum(_, _, _)
SortMaxIndex_LastMaximum(p, j, maxIndex) ==
    IF j >= EEP_HIGH_SCORE_TABLE_SIZE THEN maxIndex
    ELSE SortMaxIndex_LastMaximum(p, j + 1,
                                  IF ~ULLess(p[j].score, p[maxIndex].score) THEN j ELSE maxIndex)

\* Inner loop of the sort: for(j = i; j < SIZE; j++) if(p[j]->score > p[maxIndex]->score) maxIndex = j;
RECURSIVE SortMaxIndex(_, _, _)
SortMaxIndex(p, j, maxIndex) ==
    IF j >= EEP_HIGH_SCORE_TABLE_SIZE THEN maxIndex
    ELSE SortMaxIndex(p, j + 1, IF ULGreater(p[j].score, p[maxIndex].score) THEN j ELSE maxIndex)

\* Outer loop: for(i = 0; i < SIZE - 1; i++){ find maxIndex; swap p[i] and p[maxIndex]; }
RECURSIVE SortPass(_, _)
SortPass(p, i) ==
    IF i >= EEP_HIGH_SCORE_TABLE_SIZE - 1 THEN p
    ELSE LET maxIndex == SortMaxIndex(p, i, i)
             swapped  == [p EXCEPT ![i] = p[maxIndex], ![maxIndex] = p[i]]
         IN  IF Evaluated(swapped) THEN SortPass(swapped, i + 1) ELSE p

\* for(i = 0; i < SIZE; i++) eep_writeHighScore(p[i], i);
RECURSIVE WriteTable(_, _, _)
WriteTable(mem, p, i) ==
    IF i >= EEP_HIGH_SCORE_TABLE_SIZE THEN mem
    ELSE LET written == eep_writeHighScore(mem, p[i], i)
         IN  IF Evaluated(written) THEN WriteTable(written, p, i + 1) ELSE mem

eep_sortHighScoreTable_NoSort(mem) == WriteTable(mem, eep_readHighScoreTable(mem), 0)

eep_sortHighScoreTable(mem) ==
    LET highScoreTablep == SortPass(eep_readHighScoreTable(mem), 0)
    IN  IF Evaluated(highScoreTablep) THEN WriteTable(mem, highScoreTablep, 0) ELSE mem

eep_addHighScore_OverwriteFirst(mem, hs) ==
    LET isAdded == eep_isHighScore(mem, hs.score)
        written == eep_writeHighScore(mem, hs, 0)
    IN  [mem |-> IF isAdded /\ Evaluated(written) THEN eep_sortHighScoreTable(written) ELSE mem,
         isAdded |-> isAdded]

\* Returns the new storage contents and the function's return value.
eep_addHighScore(mem, hs) ==
    LET isAdded == eep_isHighScore(mem, hs.score)
        written == eep_writeHighScore(mem, hs, EEP_HIGH_SCORE_TABLE_SIZE - 1)
    IN  [mem |-> IF isAdded /\ Evaluated(written) THEN eep_sortHighScoreTable(written) ELSE mem,
         isAdded |-> isAdded]

\* dummyHS = {6000, "JMT"}; for each index: write, then dummyHS.score -= 500.
RECURSIVE InitialiseFrom(_, _, _)
InitialiseFrom(mem, dummyHS, i) ==
    IF i >= EEP_HIGH_SCORE_TABLE_SIZE THEN mem
    ELSE LET written == eep_writeHighScore(mem, dummyHS, i)
         IN  IF Evaluated(written)
             THEN InitialiseFrom(written, [dummyHS EXCEPT !.score = ULAdd(dummyHS.score, -500)], i + 1)
             ELSE mem

\* A loop that starts at the second record.
eep_initialiseHighScoreTable_FromSecond(mem) ==
    InitialiseFrom(mem, [score |-> UL(6000), alias |-> <<74, 77, 84, 0>>], 1)

eep_initialiseHighScoreTable(mem) ==
    InitialiseFrom(mem, [score |-> UL(6000), alias |-> <<74, 77, 84, 0>>], 0)

(***************************************************************************)
(* Symbols, buttons and input interpretation.                              *)
(***************************************************************************)
\* enum disp_Button.
NONE_BUTTON == 0
SELECT_BUTTON == 1
RIGHT_BUTTON == 2
DOWN_BUTTON == 4
UP_BUTTON == 8
LEFT_BUTTON == 16

\* arrow_createSymbolSet: the value of the symbol at each index of
\* profile->symbols.  A symbol reference is its index, 0..3.
ArrowSymbolValue == [r \in 0..(ROUNDP_SYMBOLS_LENGTH - 1) |->
                        CASE r = 0 -> "u" [] r = 1 -> "l" [] r = 2 -> "d" [] r = 3 -> "r"]

\* The value 0 returned for an input that maps to no symbol.
NoSymbolValue == "0"

\* A mapper that tests the flag of each button in turn.
inputToArrowSymbol_AnyBit(in) ==
    CASE (in \div RIGHT_BUTTON) % 2 = 1 -> "r"
      [] (in \div LEFT_BUTTON) % 2 = 1  -> "l"
      [] (in \div DOWN_BUTTON) % 2 = 1  -> "d"
      [] (in \div UP_BUTTON) % 2 = 1    -> "u"
      [] OTHER                          -> NoSymbolValue

inputToArrowSymbol(in) ==
    CASE in = RIGHT_BUTTON -> "r"
      [] in = LEFT_BUTTON  -> "l"
      [] in = DOWN_BUTTON  -> "d"
      [] in = UP_BUTTON    -> "u"
      [] OTHER             -> NoSymbolValue

\* A mirror that reverses up and down only.
mirrorInputToArrowSymbol_Vertical(in) ==
    CASE in = RIGHT_BUTTON -> "r"
      [] in = LEFT_BUTTON  -> "l"
      [] in = DOWN_BUTTON  -> "u"
      [] in = UP_BUTTON    -> "d"
      [] OTHER             -> NoSymbolValue

mirrorInputToArrowSymbol(in) ==
    CASE in = RIGHT_BUTTON -> "l"
      [] in = LEFT_BUTTON  -> "r"
      [] in = DOWN_BUTTON  -> "u"
      [] in = UP_BUTTON    -> "d"
      [] OTHER             -> NoSymbolValue

\* (*(profile->inputToSymbolValue))(input): the function pointer is held as a tag.
inputToSymbolValue(profile, in) ==
    IF profile.inputToSymbolValue = "mirrorInputToArrowSymbol"
    THEN mirrorInputToArrowSymbol(in)
    ELSE inputToArrowSymbol(in)

(***************************************************************************)
(* Sequence generation.  The results of random() are the draws.            *)
(***************************************************************************)
\* The swap loop of chooseRandomSymbols: at step i the reference at
\* randomIndex = draws[i] is swapped with the reference at i.
RECURSIVE ChooseSwap(_, _, _, _)
ChooseSwap(symbolReferences, draws, i, destinationLength) ==
    IF i >= destinationLength THEN symbolReferences
    ELSE LET randomIndex == draws[i]
             swapped == [symbolReferences EXCEPT ![randomIndex] = symbolReferences[i],
                                                 ![i] = symbolReferences[randomIndex]]
         IN  ChooseSwap(swapped, draws, i + 1, destinationLength)

\* Drawing with replacement: destination[i] is the symbol at the i-th draw.
chooseRandomSymbols_Redraw(symbolsLength, destinationLength, draws) ==
    [i \in 0..(destinationLength - 1) |-> draws[i]]

\* destination[0..destinationLength-1] for the draws random(0, symbolsLength) made.
chooseRandomSymbols(symbolsLength, destinationLength, draws) ==
    LET symbolReferences == ChooseSwap([i \in 0..(symbolsLength - 1) |-> i], draws, 0,
                                       destinationLength)
    IN  [i \in 0..(destinationLength - 1) |-> symbolReferences[i]]

\* One pass of the drawing loop: sequence[i] = symbols[random(0, symbolsLength)].
DrawSequence(symbols, draws, sequenceLength) ==
    [i \in 0..(sequenceLength - 1) |-> symbols[draws[i]]]

\* A test that is satisfied by one symbol of the set appearing.
containsAllSymbols_Any(symbols, seq, symbolsLength, sequenceLength) ==
    \E i \in 0..(symbolsLength - 1) : \E j \in 0..(sequenceLength - 1) : symbols[i] = seq[j]

\* The test that follows the drawing loop.
containsAllSymbols(symbols, seq, symbolsLength, sequenceLength) ==
    \A i \in 0..(symbolsLength - 1) : \E j \in 0..(sequenceLength - 1) : symbols[i] = seq[j]

(***************************************************************************)
(* Game profiles.  A GameProfile is held flat: the fields of rProfile      *)
(* followed by those of the game.  symbols is always the arrow set.        *)
(***************************************************************************)
initPracticeGameProfile ==
    [sequenceLength |-> ROUNDP_SEQUENCE_LENGTH_MIN, uniqueSymbols |-> ROUNDP_UNIQUE_SYMBOLS_MIN,
     inputToSymbolValue |-> "inputToArrowSymbol", displayTime |-> 1000, inputTime |-> 2000,
     score |-> UL(0), changeRoundComplexity |-> "randomRoundComplexity",
     isComplexityChanging |-> FALSE, roundCount |-> 1, lifeCount |-> 1,
     gameTitle |-> "Practice"]

\* An initialiser that leaves a score in the profile.
initEasyGameProfile_Scored ==
    [sequenceLength |-> 4, uniqueSymbols |-> 2,
     inputToSymbolValue |-> "inputToArrowSymbol", displayTime |-> 1500, inputTime |-> 2000,
     score |-> UL(100), changeRoundComplexity |-> "easyRoundComplexity",
     isComplexityChanging |-> TRUE, roundCount |-> 10, lifeCount |-> 3,
     gameTitle |-> "Easy"]

initEasyGameProfile ==
    [sequenceLength |-> 4, uniqueSymbols |-> 2,
     inputToSymbolValue |-> "inputToArrowSymbol", displayTime |-> 1500, inputTime |-> 2000,
     score |-> UL(0), changeRoundComplexity |-> "easyRoundComplexity",
     isComplexityChanging |-> TRUE, roundCount |-> 10, lifeCount |-> 3,
     gameTitle |-> "Easy"]

initMediumGameProfile ==
    [sequenceLength |-> 5, uniqueSymbols |-> 3,
     inputToSymbolValue |-> "inputToArrowSymbol", displayTime |-> 1000, inputTime |-> 1500,
     score |-> UL(0), changeRoundComplexity |-> "mediumRoundComplexity",
     isComplexityChanging |-> TRUE, roundCount |-> 15, lifeCount |-> 3,
     gameTitle |-> "Medium"]

initHardGameProfile ==
    [sequenceLength |-> 6, uniqueSymbols |-> 4,
     inputToSymbolValue |-> "inputToArrowSymbol", displayTime |-> 800, inputTime |-> 1500,
     score |-> UL(0), changeRoundComplexity |-> "hardRoundComplexity",
     isComplexityChanging |-> TRUE, roundCount |-> 20, lifeCount |-> 3,
     gameTitle |-> "Hard"]

initMirrorGameProfile ==
    [sequenceLength |-> 4, uniqueSymbols |-> 2,
     inputToSymbolValue |-> "mirrorInputToArrowSymbol", displayTime |-> 1500, inputTime |-> 2000,
     score |-> UL(0), changeRoundComplexity |-> "randomRoundComplexity",
     isComplexityChanging |-> TRUE, roundCount |-> 15, lifeCount |-> 3,
     gameTitle |-> "Mirror"]

(***************************************************************************)
(* Difficulty strategies.                                                  *)
(***************************************************************************)
easyRoundComplexity(profile, roundNumber) ==
    CASE roundNumber = 3  -> [profile EXCEPT !.sequenceLength = 5, !.displayTime = 950]
      [] roundNumber = 4  -> [profile EXCEPT !.displayTime = 900]
      [] roundNumber = 5  -> [profile EXCEPT !.displayTime = 850, !.inputTime = 1500]
      [] roundNumber = 6  -> [profile EXCEPT !.uniqueSymbols = 3, !.displayTime = 800]
      [] roundNumber = 7  -> [profile EXCEPT !.displayTime = 750]
      [] roundNumber = 8  -> [profile EXCEPT !.displayTime = 700]
      [] roundNumber = 9  -> [profile EXCEPT !.sequenceLength = 6, !.displayTime = 650]
      [] roundNumber = 10 -> [profile EXCEPT !.displayTime = 600]
      [] OTHER            -> profile

mediumRoundComplexity(profile, roundNumber) ==
    CASE roundNumber = 3  -> [profile EXCEPT !.displayTime = 950]
      [] roundNumber = 4  -> [profile EXCEPT !.displayTime = 900]
      [] roundNumber = 5  -> [profile EXCEPT !.displayTime = 850, !.sequenceLength = 6]
      [] roundNumber = 6  -> [profile EXCEPT !.displayTime = 800]
      [] roundNumber = 7  -> [profile EXCEPT !.displayTime = 750, !.inputTime = 1000]
      [] roundNumber = 8  -> [profile EXCEPT !.uniqueSymbols = 4, !.displayTime = 700]
      [] roundNumber = 9  -> [profile EXCEPT !.displayTime = 650]
      [] roundNumber = 10 -> [profile EXCEPT !.displayTime = 600, !.sequenceLength = 7]
      [] roundNumber = 11 -> [profile EXCEPT !.displayTime = 550]
      [] roundNumber = 12 -> [profile EXCEPT !.displayTime = 500]
      [] roundNumber = 13 -> [profile EXCEPT !.sequenceLength = 8]
      [] OTHER            -> profile

\* A table whose last entry gives back the input time of the first round.
hardRoundComplexity_Relenting(profile, roundNumber) ==
    CASE roundNumber = 3  -> [profile EXCEPT !.displayTime = 750, !.inputTime = 1400]
      [] roundNumber = 5  -> [profile EXCEPT !.sequenceLength = 7]
      [] roundNumber = 6  -> [profile EXCEPT !.displayTime = 700, !.inputTime = 1300]
      [] roundNumber = 9  -> [profile EXCEPT !.displayTime = 650, !.inputTime = 1200]
      [] roundNumber = 10 -> [profile EXCEPT !.sequenceLength = 8]
      [] roundNumber = 12 -> [profile EXCEPT !.displayTime = 600, !.inputTime = 1100]
      [] roundNumber = 14 -> [profile EXCEPT !.sequenceLength = 9]
      [] roundNumber = 16 -> [profile EXCEPT !.displayTime = 500, !.inputTime = 1000]
      [] roundNumber = 18 -> [profile EXCEPT !.sequenceLength = 10, !.inputTime = 1500]
      [] OTHER            -> profile

hardRoundComplexity(profile, roundNumber) ==
    CASE roundNumber = 3  -> [profile EXCEPT !.displayTime = 750, !.inputTime = 1400]
      [] roundNumber = 5  -> [profile EXCEPT !.sequenceLength = 7]
      [] roundNumber = 6  -> [profile EXCEPT !.displayTime = 700, !.inputTime = 1300]
      [] roundNumber = 9  -> [profile EXCEPT !.displayTime = 650, !.inputTime = 1200]
      [] roundNumber = 10 -> [profile EXCEPT !.sequenceLength = 8]
      [] roundNumber = 12 -> [profile EXCEPT !.displayTime = 600, !.inputTime = 1100]
      [] roundNumber = 14 -> [profile EXCEPT !.sequenceLength = 9]
      [] roundNumber = 16 -> [profile EXCEPT !.displayTime = 500, !.inputTime = 1000]
      [] roundNumber = 18 -> [profile EXCEPT !.sequenceLength = 10, !.inputTime = 800]
      [] OTHER            -> profile

\* The while loop of randomRoundComplexity; randomComplexity is 0 SEQUENCE_LENGTH,
\* 1 UNIQUE_SYMBOLS, 2 DISPLAY_TIME, 3 INPUT_TIME.  Returns the profile once
\* complexityIncreased is set.
RECURSIVE RandomComplexityLoop(_, _)
RandomComplexityLoop(profile, randomComplexity) ==
    CASE randomComplexity = 0 ->
            IF profile.sequenceLength < ROUNDP_SEQUENCE_LENGTH_MAX
            THEN [profile EXCEPT !.sequenceLength = (@ + 1) % UINT16]
            ELSE RandomComplexityLoop(profile, randomComplexity + 1)
      [] randomComplexity = 1 ->
            IF profile.uniqueSymbols < ROUNDP_UNIQUE_SYMBOLS_MAX
            THEN [profile EXCEPT !.uniqueSymbols = (@ + 1) % UINT16]
            ELSE RandomComplexityLoop(profile, randomComplexity + 1)
      [] randomComplexity = 2 ->
            IF (profile.displayTime - 250) % UINT16 >= ROUNDP_DISPLAY_TIME_MIN
            THEN [profile EXCEPT !.displayTime = (@ - 250) % UINT16]
            ELSE RandomComplexityLoop([profile EXCEPT !.displayTime = ROUNDP_DISPLAY_TIME_MIN],
                                      randomComplexity + 1)
      [] randomComplexity = 3 ->
            IF (profile.inputTime - 250) % UINT16 >= ROUNDP_INPUT_TIME_MIN
            THEN [profile EXCEPT !.inputTime = (@ - 250) % UINT16]
            ELSE LET floored == [profile EXCEPT !.inputTime = ROUNDP_INPUT_TIME_MIN]
                 IN  IF floored.sequenceLength < ROUNDP_SEQUENCE_LENGTH_MAX
                     THEN RandomComplexityLoop(floored, 0)
                     ELSE IF floored.uniqueSymbols < ROUNDP_UNIQUE_SYMBOLS_MAX
                     THEN RandomComplexityLoop(floored, 1)
                     ELSE IF floored.displayTime > ROUNDP_DISPLAY_TIME_MIN
                     THEN RandomComplexityLoop(floored, 2)
                     ELSE floored

\* A switch whose SEQUENCE_LENGTH case leaves randomComplexity as it is when
\* the length is at its maximum.
RandomComplexityIteration_NoAdvance(profile, randomComplexity) ==
    IF randomComplexity = 0 /\ profile.sequenceLength >= ROUNDP_SEQUENCE_LENGTH_MAX
    THEN [profile |-> profile, randomComplexity |-> randomComplexity,
          complexityIncreased |-> FALSE]
    ELSE [profile |-> RandomComplexityLoop(profile, randomComplexity),
          randomComplexity |-> randomComplexity, complexityIncreased |-> TRUE]

\* One iteration of the while loop of randomRoundComplexity: the switch on
\* randomComplexity.  Returns the profile, randomComplexity and
\* complexityIncreased as the iteration leaves them.
RandomComplexityIteration(profile, randomComplexity) ==
    CASE randomComplexity = 0 ->
            IF profile.sequenceLength < ROUNDP_SEQUENCE_LENGTH_MAX
            THEN [profile |-> [profile EXCEPT !.sequenceLength = (@ + 1) % UINT16],
                  randomComplexity |-> randomComplexity, complexityIncreased |-> TRUE]
            ELSE [profile |-> profile, randomComplexity |-> randomComplexity + 1,
                  complexityIncreased |-> FALSE]
      [] randomComplexity = 1 ->
            IF profile.uniqueSymbols < ROUNDP_UNIQUE_SYMBOLS_MAX
            THEN [profile |-> [profile EXCEPT !.uniqueSymbols = (@ + 1) % UINT16],
                  randomComplexity |-> randomComplexity, complexityIncreased |-> TRUE]
            ELSE [profile |-> profile, randomComplexity |-> randomComplexity + 1,
                  complexityIncreased |-> FALSE]
      [] randomComplexity = 2 ->
            IF (profile.displayTime - 250) % UINT16 >= ROUNDP_DISPLAY_TIME_MIN
            THEN [profile |-> [profile EXCEPT !.displayTime = (@ - 250) % UINT16],
                  randomComplexity |-> randomComplexity, complexityIncreased |-> TRUE]
            ELSE [profile |-> [profile EXCEPT !.displayTime = ROUNDP_DISPLAY_TIME_MIN],
                  randomComplexity |-> randomComplexity + 1, complexityIncreased |-> FALSE]
      [] randomComplexity = 3 ->
            IF (profile.inputTime - 250) % UINT16 >= ROUNDP_INPUT_TIME_MIN
            THEN [profile |-> [profile EXCEPT !.inputTime = (@ - 250) % UINT16],
                  randomComplexity |-> randomComplexity, complexityIncreased |-> TRUE]
            ELSE LET floored == [profile EXCEPT !.inputTime = ROUNDP_INPUT_TIME_MIN]
                 IN  IF floored.sequenceLength < ROUNDP_SEQUENCE_LENGTH_MAX
                     THEN [profile |-> floored, randomComplexity |-> 0,
                           complexityIncreased |-> FALSE]
                     ELSE IF floored.uniqueSymbols < ROUNDP_UNIQUE_SYMBOLS_MAX
                     THEN [profile |-> floored, randomComplexity |-> 1,
                           complexityIncreased |-> FALSE]
                     ELSE IF floored.displayTime > ROUNDP_DISPLAY_TIME_MIN
                     THEN [profile |-> floored, randomComplexity |-> 2,
                           complexityIncreased |-> FALSE]
                     ELSE [profile |-> floored, randomComplexity |-> randomComplexity,
                           complexityIncreased |-> TRUE]

\* A strategy whose INPUT_TIME case subtracts without testing the minimum.
randomRoundComplexity_NoFloor(profile, roundNumber, draw) ==
    IF roundNumber > 1
    THEN IF draw = 3
         THEN [profile EXCEPT !.inputTime = (@ - 250) % UINT16]
         ELSE RandomComplexityLoop(profile, draw)
    ELSE profile

\* draw is the result of random(0, 4).
randomRoundComplexity(profile, roundNumber, draw) ==
    IF roundNumber > 1 THEN RandomComplexityLoop(profile, draw) ELSE profile

\* profile->changeRoundComplexity(&profile->rProfile, roundNumber): the function
\* pointer is held as a tag.
\* A game in which every mode draws its changes.
changeRoundComplexity_AllRandom(profile, roundNumber, draw) ==
    randomRoundComplexity(profile, roundNumber, draw)

changeRoundComplexity(profile, roundNumber, draw) ==
    CASE profile.changeRoundComplexity = "easyRoundComplexity" ->
            easyRoundComplexity(profile, roundNumber)
      [] profile.changeRoundComplexity = "mediumRoundComplexity" ->
            mediumRoundComplexity(profile, roundNumber)
      [] profile.changeRoundComplexity = "hardRoundComplexity" ->
            hardRoundComplexity(profile, roundNumber)
      [] OTHER -> randomRoundComplexity(profile, roundNumber, draw)

(***************************************************************************)
(* The configuration menu.                                                 *)
(***************************************************************************)
\* The switch in the loop of runConfigurationMenu in state `st` with the button
\* byte `in` returned by disp_buttonPress: the profile and the state after
\* the switch, and whether eep_initialiseHighScoreTable and eep_writeSeed(0UL)
\* were called.  The build defines DEBUG, so the DEBUG_CONFIG page exists; its
\* LEFT and RIGHT set DEBUG_ENABLED, which only switches the serial log.
ConfigurationMenuSwitch(profile, st, in) ==
    LET stay     == [profile |-> profile, state |-> st, reset |-> FALSE]
        goto(s)  == [stay EXCEPT !.state = s]
        with(p)  == [stay EXCEPT !.profile = p]
    IN  CASE st = "ROUNDS" ->
                CASE in = LEFT_BUTTON ->
                        IF profile.roundCount = GAMEP_ROUND_COUNT_INF
                        THEN with([profile EXCEPT !.roundCount = GAMEP_ROUND_COUNT_MAX])
                        ELSE IF profile.roundCount > GAMEP_ROUND_COUNT_MIN
                        THEN with([profile EXCEPT !.roundCount = @ - 1])
                        ELSE with([profile EXCEPT !.roundCount = GAMEP_ROUND_COUNT_INF])
                  [] in = RIGHT_BUTTON ->
                        IF profile.roundCount = GAMEP_ROUND_COUNT_INF
                        THEN with([profile EXCEPT !.roundCount = GAMEP_ROUND_COUNT_MIN])
                        ELSE IF profile.roundCount < GAMEP_ROUND_COUNT_MAX
                        THEN with([profile EXCEPT !.roundCount = @ + 1])
                        ELSE with([profile EXCEPT !.roundCount = GAMEP_ROUND_COUNT_INF])
                  [] in = DOWN_BUTTON -> goto("LIVES")
                  [] OTHER -> stay
          [] st = "LIVES" ->
                CASE in = LEFT_BUTTON ->
                        IF profile.lifeCount > GAMEP_LIFE_COUNT_MIN
                        THEN with([profile EXCEPT !.lifeCount = @ - 1]) ELSE stay
                  [] in = RIGHT_BUTTON ->
                        IF profile.lifeCount < GAMEP_LIFE_COUNT_MAX
                        THEN with([profile EXCEPT !.lifeCount = @ + 1]) ELSE stay
                  [] in = UP_BUTTON -> goto("ROUNDS")
                  [] in = DOWN_BUTTON -> goto("SEQUENCE_LENGTH")
                  [] OTHER -> stay
          [] st = "SEQUENCE_LENGTH" ->
                CASE in = LEFT_BUTTON ->
                        IF profile.sequenceLength > ROUNDP_SEQUENCE_LENGTH_MIN
                        THEN with([profile EXCEPT !.sequenceLength = @ - 1]) ELSE stay
                  [] in = RIGHT_BUTTON ->
                        IF profile.sequenceLength < ROUNDP_SEQUENCE_LENGTH_MAX
                        THEN with([profile EXCEPT !.sequenceLength = @ + 1]) ELSE stay
                  [] in = UP_BUTTON -> goto("LIVES")
                  [] in = DOWN_BUTTON -> goto("SYMBOLS")
                  [] OTHER -> stay
          [] st = "SYMBOLS" ->
                CASE in = LEFT_BUTTON ->
                        IF profile.uniqueSymbols > ROUNDP_UNIQUE_SYMBOLS_MIN
                        THEN with([profile EXCEPT !.uniqueSymbols = @ - 1]) ELSE stay
                  [] in = RIGHT_BUTTON ->
                        IF profile.uniqueSymbols < ROUNDP_UNIQUE_SYMBOLS_MAX
                        THEN with([profile EXCEPT !.uniqueSymbols = @ + 1]) ELSE stay
                  [] in = UP_BUTTON -> goto("SEQUENCE_LENGTH")
                  [] in = DOWN_BUTTON -> goto("DISPLAY_TIME")
                  [] OTHER -> stay
          [] st = "DISPLAY_TIME" ->
                CASE in = LEFT_BUTTON ->
                        IF profile.displayTime > ROUNDP_DISPLAY_TIME_MIN
                        THEN with([profile EXCEPT !.displayTime = (@ - 100) % UINT16])
                        ELSE stay
                  [] in = RIGHT_BUTTON ->
                        IF profile.displayTime < ROUNDP_DISPLAY_TIME_MAX
                        THEN with([profile EXCEPT !.displayTime = (@ + 100) % UINT16])
                        ELSE stay
                  [] in = UP_BUTTON -> goto("SYMBOLS")
                  [] in = DOWN_BUTTON -> goto("INPUT_TIME")
                  [] OTHER -> stay
          [] st = "INPUT_TIME" ->
                CASE in = LEFT_BUTTON ->
                        IF profile.inputTime > ROUNDP_INPUT_TIME_MIN
                        THEN with([profile EXCEPT !.inputTime = (@ - 100) % UINT16])
                        ELSE stay
                  [] in = RIGHT_BUTTON ->
                        IF profile.inputTime < ROUNDP_INPUT_TIME_MAX
                        THEN with([profile EXCEPT !.inputTime = (@ + 100) % UINT16])
                        ELSE stay
                  [] in = UP_BUTTON -> goto("DISPLAY_TIME")
                  [] in = DOWN_BUTTON -> goto("COMPLEXITY")
                  [] OTHER -> stay
          [] st = "COMPLEXITY" ->
                CASE in = LEFT_BUTTON -> with([profile EXCEPT !.isComplexityChanging = FALSE])
                  [] in = RIGHT_BUTTON -> with([profile EXCEPT !.isComplexityChanging = TRUE])
                  [] in = UP_BUTTON -> goto("INPUT_TIME")
                  [] in = DOWN_BUTTON -> goto("RESET")
                  [] OTHER -> stay
          [] st = "RESET" ->
                CASE in = SELECT_BUTTON -> [stay EXCEPT !.reset = TRUE]
                  [] in = UP_BUTTON -> goto("COMPLEXITY")
                  [] in = DOWN_BUTTON -> goto("DEBUG_CONFIG")
                  [] OTHER -> stay
          [] st = "DEBUG_CONFIG" ->
                CASE in = UP_BUTTON -> goto("RESET")
                  [] in = DOWN_BUTTON -> goto("BACK")
                  [] OTHER -> stay
          [] st = "BACK" ->
                CASE in = SELECT_BUTTON -> goto("END")
                  [] in = UP_BUTTON -> goto("DEBUG_CONFIG")
                  [] OTHER -> stay
          [] OTHER -> stay

\* A menu whose LIVES page raises the life count without testing the maximum.
runConfigurationMenu_NoMaximum(profile, st, in) ==
    IF st = "LIVES" /\ in = RIGHT_BUTTON
    THEN [profile |-> [profile EXCEPT !.lifeCount = @ + 1], state |-> st, reset |-> FALSE]
    ELSE ConfigurationMenuSwitch(profile, st, in)

\* One pass of while(state != END) in runConfigurationMenu.
runConfigurationMenu(profile, st, in) == ConfigurationMenuSwitch(profile, st, in)

\* runMenu before the first button press.
MenuAtBoot ==
    /\ menuState = "PRACTICE"
    /\ configState = "END"
    /\ rngSeed = eep_readSeed(eeprom)
    /\ difficulty = "EASY"
    /\ configProfile = initPracticeGameProfile
    /\ runningProfile = initPracticeGameProfile

(***************************************************************************)
(* Persistence harness: the storage as the menu and runGame use it.        *)
(***************************************************************************)
\* Scores offered to eep_addHighScore: below, at and above the dummy scores,
\* ties with stored scores, and the extremes of unsigned long.
HarnessScores ==
    {UL(0), UL(1500), UL(1501), UL(2000), UL(6000), UL(6500), [hi |-> UINT16 - 1, lo |-> UINT16 - 1]}

\* Aliases as getAlias produces them: three letters and the terminator.
HarnessAliases == {<<65, 65, 65, 0>>, <<90, 90, 90, 0>>}

\* No function is called on its own.
NoHarnessCall == [op |-> "none"]

NoCall == [op |-> "none", arg |-> [score |-> UL(0), alias |-> <<0, 0, 0, 0>>],
           ret |-> FALSE, before |-> ErasedEeprom]

\* The storage of a board on which the program has never run.
EepFresh ==
    /\ eeprom = ErasedEeprom
    /\ lastCall = NoCall
    /\ addCalls = 0
    /\ tableInitialised = FALSE

\* No round is running: the locals of runRound hold nothing.
RoundIdle ==
    /\ state = "NONE"
    /\ roundSymbols = <<>>
    /\ sequence = <<>>
    /\ input = 0
    /\ inputCount = 0
    /\ timeToInput = 0
    /\ totalInputTime = 0
    /\ scoreIncrement = 0
    /\ roundWon = FALSE
    /\ latencySum = 0

\* No game is running: the locals of runGame hold nothing.
GameIdle ==
    /\ roundIndex = 0
    /\ remainingLives = 0
    /\ gameLost = FALSE
    /\ bonusPoints = 0
    /\ allFast = TRUE
    /\ tableAtEntry = <<>>
    /\ buttonDown = FALSE
    /\ correctLatencies = EmptyBag
    /\ allMatched = TRUE
    /\ scoreAtRoundEntry = UL(0)
    /\ lostRounds = 0

InitEep ==
    /\ harnessCall = NoHarnessCall
    /\ pc = "eep"
    /\ EepFresh
    /\ MenuAtBoot
    /\ GameIdle
    /\ RoundIdle

\* runConfigurationMenu, case RESET / SELECT.
ResetSystem ==
    /\ UNCHANGED <<harnessCall, rngSeed>>
    /\ UNCHANGED <<buttonDown, histVars>>
    /\ pc = "eep"
    /\ eeprom' = eep_writeSeed(eep_initialiseHighScoreTable(eeprom), UL(0))
    /\ lastCall' = [NoCall EXCEPT !.op = "reset", !.before = eeprom]
    /\ tableInitialised' = TRUE
    /\ UNCHANGED <<pc, addCalls, menuVars, gameVars, roundVars>>

CallAddHighScore ==
    /\ UNCHANGED <<harnessCall, rngSeed>>
    /\ UNCHANGED <<buttonDown, histVars>>
    /\ pc = "eep"
    /\ addCalls < MaxAdds
    /\ \E score \in HarnessScores, alias \in HarnessAliases :
          LET hs == [score |-> score, alias |-> alias]
              r  == eep_addHighScore(eeprom, hs)
          IN  /\ eeprom' = r.mem
              /\ lastCall' = [op |-> "add", arg |-> hs, ret |-> r.isAdded, before |-> eeprom]
    /\ addCalls' = addCalls + 1
    /\ UNCHANGED <<pc, tableInitialised, menuVars, gameVars, roundVars>>

NextEep == ResetSystem \/ CallAddHighScore

SpecEep == InitEep /\ [][NextEep]_vars

(***************************************************************************)
(* Scoring.                                                                *)
(***************************************************************************)
inputTimeToScore_Exclusive(t) ==
    IF t <= 250 THEN 150 ELSE IF t <= 500 THEN 125 ELSE IF t <= 1000 THEN 125 ELSE 100

inputTimeToScore_StrictQuarter(t) ==
    100 + (IF t < 250 THEN 50 ELSE 0) + (IF t <= 500 THEN 25 ELSE 0)
        + (IF t <= 1000 THEN 25 ELSE 0)

\* unsigned int score = 100; three independent ifs, each adding its bonus.
inputTimeToScore(t) ==
    LET base    == 100
        quarter == IF t <= 250 THEN base + 50 ELSE base
        half    == IF t <= 500 THEN quarter + 25 ELSE quarter
        second  == IF t <= 1000 THEN half + 25 ELSE half
    IN  second % UINT16

\* The scoring function applied to every input time a timed wait can report
\* for a press (a press is always reported before the deadline, which is at
\* most ROUNDP_INPUT_TIME_MAX).
InitScore ==
    /\ harnessCall = NoHarnessCall
    /\ pc = "score"
    /\ EepFresh
    /\ MenuAtBoot
    /\ GameIdle
    /\ state = "NONE"
    /\ roundSymbols = <<>>
    /\ sequence = <<>>
    /\ input = 0
    /\ inputCount = 0
    /\ timeToInput \in 0..ROUNDP_INPUT_TIME_MAX
    /\ totalInputTime = 0
    /\ scoreIncrement = 0
    /\ roundWon = FALSE
    /\ latencySum = 0

\* scoreIncrement = inputTimeToScore(timeToInput);
ScoreInput ==
    /\ UNCHANGED <<harnessCall, rngSeed>>
    /\ UNCHANGED <<buttonDown, histVars>>
    /\ pc = "score"
    /\ scoreIncrement' = inputTimeToScore(timeToInput)
    /\ pc' = "scored"
    /\ UNCHANGED <<eepVars, menuVars, gameVars, state, roundSymbols, sequence, input,
                   inputCount, timeToInput, totalInputTime, roundWon, latencySum>>

NextScore == ScoreInput

SpecScore == InitScore /\ [][NextScore]_vars

(***************************************************************************)
(* The game: runMenu starting a game, runGame and runRound.                *)
(***************************************************************************)
\* The player plays freely in games of at most MaxFreeRounds rounds; longer
\* games are played through by a player who repeats every sequence at once.
FreePlay(profile) == profile.roundCount <= MaxFreeRounds

\* const byte DIRECTION_MASK = 0b00011110: input & DIRECTION_MASK is non-zero.
HasDirection(in) == (in \div 2) % 16 # 0

\* disp_timedButtonPress(duration, timeTakenp, lcd), called when millis() is
\* move.startTime with the static flag buttonDown as `down`.  The player's
\* move: the loop reads NONE_BUTTON before the press when move.released, reads
\* the buttons move.pressed from move.at milliseconds after the call on, and is
\* left move.overshoot milliseconds after END_TIME when it runs out.
\* END_TIME = START_TIME + duration is an unsigned long sum: when it wraps,
\* the first test of the loop fails and the body never runs.
disp_timedButtonPress(duration, down, move) ==
    LET START_TIME == move.startTime
        END_TIME == ULAdd(START_TIME, duration)
    IN  IF ~ULLess(START_TIME, END_TIME)
        THEN [input |-> NONE_BUTTON,
              timeTaken |-> move.overshoot % UINT16,
              buttonDown |-> down]
        ELSE IF /\ move.at < duration
                /\ HasDirection(move.pressed)
                /\ (~down \/ move.released)
             THEN [input |-> move.pressed,
                   timeTaken |-> move.at % UINT16,
                   buttonDown |-> TRUE]
             ELSE [input |-> NONE_BUTTON,
                   timeTaken |-> (duration + move.overshoot) % UINT16,
                   buttonDown |-> (down /\ ~move.released)]

\* The button that the mapper of the profile takes to the symbol value.
ButtonFor(profile, value) ==
    CHOOSE b \in {RIGHT_BUTTON, DOWN_BUTTON, UP_BUTTON, LEFT_BUTTON} :
        inputToSymbolValue(profile, b) = value

\* What the player may press for the next symbol, and when.
PressedButtons(profile, value) ==
    IF FreePlay(profile)
    THEN {RIGHT_BUTTON, DOWN_BUTTON, UP_BUTTON, LEFT_BUTTON, SELECT_BUTTON,
          UP_BUTTON + RIGHT_BUTTON}
    ELSE {ButtonFor(profile, value)}

PressTimes(profile) ==
    IF FreePlay(profile) THEN {QuarterSecond, HalfSecond, profile.inputTime} ELSE {0}

\* millis() at the call: shortly after power-up, or RolloverMargin
\* milliseconds before the unsigned long counter rolls over.
RolloverMargin == 250

StartTimes(profile) ==
    IF FreePlay(profile)
    THEN {UL(0), [hi |-> UINT16 - 1, lo |-> UINT16 - RolloverMargin]}
    ELSE {UL(0)}

\* Whether the player lets go of the buttons before pressing again.
Releases(profile) == IF FreePlay(profile) THEN BOOLEAN ELSE {TRUE}

\* The moves of the player for the next symbol; a harness call fixes the move.
PlayerMoves(profile, value) ==
    IF harnessCall.op = "disp_timedButtonPress"
    THEN {harnessCall.move}
    ELSE [startTime : StartTimes(profile),
          released : Releases(profile),
          pressed : PressedButtons(profile, value),
          at : PressTimes(profile),
          overshoot : TimeoutOvershoots]

\* The values random(0, ROUNDP_SYMBOLS_LENGTH) returns in chooseRandomSymbols.
ChooseDraws(profile) ==
    {[i \in 0..(profile.uniqueSymbols - 1) |-> i]}
        \cup (IF FreePlay(profile)
              THEN {[i \in 0..(profile.uniqueSymbols - 1) |-> ROUNDP_SYMBOLS_LENGTH - 1]}
              ELSE {})

\* The values random(0, symbolsLength) returns in the last pass of
\* generateSymbolSequence; the constant vector is one that the pass rejects.
SequenceDraws(profile) ==
    {[i \in 0..(profile.sequenceLength - 1) |-> (i + c) % profile.uniqueSymbols] :
        c \in 0..(IF FreePlay(profile) THEN 1 ELSE 0)}
        \cup {[i \in 0..(profile.sequenceLength - 1) |-> 0]}

\* The values random(0, 4) returns in randomRoundComplexity.
ComplexityDraws(profile) == IF FreePlay(profile) THEN 0..3 ELSE {0, 3}

\* The configurations of Practice Mode that are played.
PracticeConfigurations ==
    {[initPracticeGameProfile EXCEPT !.roundCount = c.roundCount,
                                     !.lifeCount = c.lifeCount,
                                     !.sequenceLength = c.sequenceLength,
                                     !.isComplexityChanging = c.isComplexityChanging] :
        c \in {c \in [roundCount : (1..MaxFreeRounds) \cup {GAMEP_ROUND_COUNT_MAX,
                                                            GAMEP_ROUND_COUNT_INF},
                      lifeCount : 1..MaxLives,
                      sequenceLength : ROUNDP_SEQUENCE_LENGTH_MIN..MaxSeqLen,
                      isComplexityChanging : BOOLEAN] :
                 /\ c.lifeCount <= c.roundCount
                 /\ c.roundCount > MaxFreeRounds =>
                        /\ c.lifeCount = 1
                        /\ c.sequenceLength = ROUNDP_SEQUENCE_LENGTH_MIN
                        /\ ~c.isComplexityChanging
                 /\ c.isComplexityChanging =>
                        c.sequenceLength = ROUNDP_SEQUENCE_LENGTH_MIN}}

\* The main menu shows Practice Mode or Story Mode, Reset System has been run
\* (README, installation) and no game has been played since.
InitGame ==
    /\ harnessCall = NoHarnessCall
    /\ pc = "menu"
    /\ configState = "END"
    /\ eeprom = eep_writeSeed(eep_initialiseHighScoreTable(ErasedEeprom), UL(0))
    /\ lastCall = NoCall
    /\ addCalls = 0
    /\ tableInitialised = TRUE
    /\ rngSeed = eep_readSeed(eeprom)
    /\ \/ /\ menuState = "PRACTICE"
          /\ difficulty = "EASY"
          /\ configProfile \in PracticeConfigurations
       \/ /\ menuState = "STORY"
          /\ difficulty \in {"EASY", "MEDIUM", "HARD", "MIRROR"}
          /\ configProfile = initPracticeGameProfile
    /\ runningProfile = initPracticeGameProfile
    /\ GameIdle
    /\ RoundIdle

\* The declarations at the head of runGame.
EnterGame ==
    /\ gameLost' = FALSE
    /\ remainingLives' = runningProfile'.lifeCount
    /\ roundIndex' = 0
    /\ bonusPoints' = 0
    /\ allFast' = TRUE
    /\ tableAtEntry' = eep_readHighScoreTable(eeprom)
    /\ correctLatencies' = EmptyBag
    /\ allMatched' = TRUE
    /\ scoreAtRoundEntry' = runningProfile'.score
    /\ lostRounds' = 0
    /\ pc' = "game_loop"

\* runMenu, case PRACTICE, SELECT pressed.
StartPracticeGame ==
    /\ UNCHANGED <<harnessCall, rngSeed>>
    /\ UNCHANGED buttonDown
    /\ pc = "menu"
    /\ menuState = "PRACTICE"
    /\ runningProfile' = configProfile
    /\ EnterGame
    /\ UNCHANGED <<eepVars, menuState, configState, difficulty, configProfile, roundVars>>

\* runMenu, case STORY, SELECT pressed.
StartStoryGame ==
    /\ UNCHANGED <<harnessCall, rngSeed>>
    /\ UNCHANGED buttonDown
    /\ pc = "menu"
    /\ menuState = "STORY"
    /\ runningProfile' = CASE difficulty = "EASY"   -> initEasyGameProfile
                           [] difficulty = "MEDIUM" -> initMediumGameProfile
                           [] difficulty = "HARD"   -> initHardGameProfile
                           [] difficulty = "MIRROR" -> initMirrorGameProfile
    /\ EnterGame
    /\ UNCHANGED <<eepVars, menuState, configState, difficulty, configProfile, roundVars>>

\* A loop that hands the strategy the index of the round, from 0.
GameNextRound_ZeroBased ==
    /\ UNCHANGED <<harnessCall, rngSeed>>
    /\ UNCHANGED <<buttonDown, lostRounds>>
    /\ pc = "game_loop"
    /\ roundIndex < runningProfile.roundCount /\ ~gameLost
    /\ \E draw \in ComplexityDraws(runningProfile) :
          runningProfile' = IF runningProfile.isComplexityChanging
                            THEN changeRoundComplexity(runningProfile, roundIndex, draw)
                            ELSE runningProfile
    /\ state' = "START"
    /\ roundSymbols' = <<>>
    /\ sequence' = <<>>
    /\ input' = 0
    /\ inputCount' = 0
    /\ timeToInput' = 0
    /\ totalInputTime' = 0
    /\ scoreIncrement' = 0
    /\ roundWon' = FALSE
    /\ latencySum' = 0
    /\ correctLatencies' = EmptyBag
    /\ allMatched' = TRUE
    /\ scoreAtRoundEntry' = runningProfile'.score
    /\ pc' = "round"
    /\ UNCHANGED <<eepVars, menuState, configState, difficulty, configProfile, gameVars>>

\* runGame: one iteration of the loop up to the call of runRound, whose
\* declarations are executed.
GameNextRound ==
    /\ UNCHANGED <<harnessCall, rngSeed>>
    /\ UNCHANGED <<buttonDown, lostRounds>>
    /\ pc = "game_loop"
    /\ roundIndex < runningProfile.roundCount /\ ~gameLost
    /\ \E draw \in ComplexityDraws(runningProfile) :
          runningProfile' = IF runningProfile.isComplexityChanging
                            THEN changeRoundComplexity(runningProfile, roundIndex + 1, draw)
                            ELSE runningProfile
    /\ state' = "START"
    /\ roundSymbols' = <<>>
    /\ sequence' = <<>>
    /\ input' = 0
    /\ inputCount' = 0
    /\ timeToInput' = 0
    /\ totalInputTime' = 0
    /\ scoreIncrement' = 0
    /\ roundWon' = FALSE
    /\ latencySum' = 0
    /\ correctLatencies' = EmptyBag
    /\ allMatched' = TRUE
    /\ scoreAtRoundEntry' = runningProfile'.score
    /\ pc' = "round"
    /\ UNCHANGED <<eepVars, menuState, configState, difficulty, configProfile, gameVars>>

\* What a step of runRound leaves alone besides the locals it names.
RoundFrame == UNCHANGED <<pc, eepVars, menuState, configState, difficulty, configProfile,
                          roundIndex, remainingLives, gameLost, bonusPoints, tableAtEntry,
                          scoreAtRoundEntry, lostRounds>>

RoundStart ==
    /\ UNCHANGED <<harnessCall, rngSeed>>
    /\ UNCHANGED <<buttonDown, correctLatencies, allMatched>>
    /\ pc = "round" /\ state = "START"
    /\ state' = "INITIALISING"
    /\ RoundFrame
    /\ UNCHANGED <<runningProfile, allFast, roundSymbols, sequence, input, inputCount,
                   timeToInput, totalInputTime, scoreIncrement, roundWon, latencySum>>

RoundInitialising ==
    /\ UNCHANGED <<harnessCall, rngSeed>>
    /\ UNCHANGED <<buttonDown, correctLatencies, allMatched>>
    /\ pc = "round" /\ state = "INITIALISING"
    /\ \E chosen \in ChooseDraws(runningProfile), drawn \in SequenceDraws(runningProfile) :
          LET symbols == chooseRandomSymbols(ROUNDP_SYMBOLS_LENGTH,
                                             runningProfile.uniqueSymbols, chosen)
              seq == DrawSequence(symbols, drawn, runningProfile.sequenceLength)
          IN  /\ containsAllSymbols(symbols, seq, runningProfile.uniqueSymbols,
                                    runningProfile.sequenceLength)
              /\ roundSymbols' = symbols
              /\ sequence' = seq
    /\ state' = "DISPLAYING_SEQUENCE"
    /\ RoundFrame
    /\ UNCHANGED <<runningProfile, allFast, input, inputCount, timeToInput,
                   totalInputTime, scoreIncrement, roundWon, latencySum>>

RoundDisplayingSequence ==
    /\ UNCHANGED <<harnessCall, rngSeed>>
    /\ UNCHANGED <<buttonDown, correctLatencies, allMatched>>
    /\ pc = "round" /\ state = "DISPLAYING_SEQUENCE"
    /\ state' = "GETTING_INPUT"
    /\ RoundFrame
    /\ UNCHANGED <<runningProfile, allFast, roundSymbols, sequence, input, inputCount,
                   timeToInput, totalInputTime, scoreIncrement, roundWon, latencySum>>

RoundGettingInput ==
    /\ UNCHANGED <<harnessCall, rngSeed>>
    /\ pc = "round" /\ state = "GETTING_INPUT"
    /\ \E move \in PlayerMoves(runningProfile, ArrowSymbolValue[sequence[inputCount]]) :
          LET press == disp_timedButtonPress(runningProfile.inputTime, buttonDown, move)
          IN  /\ input' = press.input
              /\ timeToInput' = press.timeTaken
              /\ totalInputTime' = (totalInputTime + press.timeTaken) % UINT16
              /\ latencySum' = latencySum + press.timeTaken
              /\ LET matched == /\ press.input # NONE_BUTTON
                                 /\ inputToSymbolValue(runningProfile, press.input)
                                        = ArrowSymbolValue[sequence[inputCount]]
                 IN  /\ allMatched' = (allMatched /\ matched)
                     /\ correctLatencies' =
                            IF matched
                            THEN correctLatencies (+) SetToBag({press.timeTaken})
                            ELSE correctLatencies
              /\ buttonDown' = press.buttonDown
              /\ state' = IF press.input = NONE_BUTTON THEN "TIMED_OUT" ELSE "COMPARING_INPUT"
    /\ inputCount' = (inputCount + 1) % UINT16
    /\ RoundFrame
    /\ UNCHANGED <<runningProfile, allFast, roundSymbols, sequence, scoreIncrement, roundWon>>

RoundTimedOut ==
    /\ UNCHANGED <<harnessCall, rngSeed>>
    /\ UNCHANGED <<buttonDown, correctLatencies, allMatched>>
    /\ pc = "round" /\ state = "TIMED_OUT"
    /\ state' = "ROUND_LOST"
    /\ allFast' = FALSE
    /\ RoundFrame
    /\ UNCHANGED <<runningProfile, roundSymbols, sequence, input, inputCount,
                   timeToInput, totalInputTime, scoreIncrement, roundWon, latencySum>>

RoundComparingInput ==
    /\ UNCHANGED <<harnessCall, rngSeed>>
    /\ UNCHANGED <<buttonDown, correctLatencies, allMatched>>
    /\ pc = "round" /\ state = "COMPARING_INPUT"
    /\ LET inputAsSymbolValue == inputToSymbolValue(runningProfile, input)
       IN  IF inputAsSymbolValue = ArrowSymbolValue[sequence[inputCount - 1]]
           THEN state' = "CORRECT_INPUT" /\ allFast' = (allFast /\ timeToInput <= QuarterSecond)
           ELSE state' = "INCORRECT_INPUT" /\ allFast' = FALSE
    /\ RoundFrame
    /\ UNCHANGED <<runningProfile, roundSymbols, sequence, input, inputCount,
                   timeToInput, totalInputTime, scoreIncrement, roundWon, latencySum>>

\* A round that asks for one input more than the sequence has symbols.
afterCorrectInput_OneMore(count, sequenceLength) ==
    IF count <= sequenceLength THEN "GETTING_INPUT" ELSE "ROUND_WON"

\* A round that shows the sequence again after every correct input.
afterCorrectInput_Redisplay(count, sequenceLength) ==
    IF count < sequenceLength THEN "DISPLAYING_SEQUENCE" ELSE "ROUND_WON"

\* The state that case CORRECT_INPUT goes to.
afterCorrectInput(count, sequenceLength) ==
    IF count < sequenceLength THEN "GETTING_INPUT" ELSE "ROUND_WON"

RoundCorrectInput ==
    /\ UNCHANGED <<harnessCall, rngSeed>>
    /\ UNCHANGED <<buttonDown, correctLatencies, allMatched>>
    /\ pc = "round" /\ state = "CORRECT_INPUT"
    /\ scoreIncrement' = inputTimeToScore(timeToInput)
    /\ runningProfile' = [runningProfile EXCEPT !.score = ULAdd(@, scoreIncrement')]
    /\ state' = afterCorrectInput(inputCount, runningProfile.sequenceLength)
    /\ RoundFrame
    /\ UNCHANGED <<allFast, roundSymbols, sequence, input, inputCount,
                   timeToInput, totalInputTime, roundWon, latencySum>>

RoundIncorrectInput ==
    /\ UNCHANGED <<harnessCall, rngSeed>>
    /\ UNCHANGED <<buttonDown, correctLatencies, allMatched>>
    /\ pc = "round" /\ state = "INCORRECT_INPUT"
    /\ state' = "ROUND_LOST"
    /\ RoundFrame
    /\ UNCHANGED <<runningProfile, allFast, roundSymbols, sequence, input, inputCount,
                   timeToInput, totalInputTime, scoreIncrement, roundWon, latencySum>>

\* A round won slowly costs the player points.
roundWonIncrement_Penalty(total, sequenceLength) ==
    IF total < (500 * sequenceLength) % UINT16
    THEN (75 * sequenceLength) % UINT16
    ELSE 0 - 50 * sequenceLength

\* The bonus awarded in case ROUND_WON.
roundWonIncrement_Inclusive(total, sequenceLength) ==
    IF total <= (500 * sequenceLength) % UINT16
    THEN (75 * sequenceLength) % UINT16
    ELSE (50 * sequenceLength) % UINT16

roundWonIncrement(total, sequenceLength) ==
    IF total < (500 * sequenceLength) % UINT16
    THEN (75 * sequenceLength) % UINT16
    ELSE (50 * sequenceLength) % UINT16

RoundRoundWon ==
    /\ UNCHANGED <<harnessCall, rngSeed>>
    /\ UNCHANGED <<buttonDown, correctLatencies, allMatched>>
    /\ pc = "round" /\ state = "ROUND_WON"
    /\ roundWon' = TRUE
    /\ runningProfile' = [runningProfile EXCEPT !.score =
            ULAdd(@, roundWonIncrement(totalInputTime, runningProfile.sequenceLength))]
    /\ state' = "END"
    /\ RoundFrame
    /\ UNCHANGED <<allFast, roundSymbols, sequence, input, inputCount,
                   timeToInput, totalInputTime, scoreIncrement, latencySum>>

RoundRoundLost ==
    /\ UNCHANGED <<harnessCall, rngSeed>>
    /\ UNCHANGED <<buttonDown, correctLatencies, allMatched>>
    /\ pc = "round" /\ state = "ROUND_LOST"
    /\ state' = "END"
    /\ RoundFrame
    /\ UNCHANGED <<runningProfile, allFast, roundSymbols, sequence, input, inputCount,
                   timeToInput, totalInputTime, scoreIncrement, roundWon, latencySum>>

\* Lives that are taken after every round, won or lost.
livesAfterRound_Always(lives, roundLost) == (lives - 1) % UINT16

\* if(roundLost) remainingLives--, on an unsigned short.
livesAfterRound(lives, roundLost) ==
    IF roundLost THEN (lives - 1) % UINT16 ELSE lives

\* runGame: runRound has returned roundWon; the rest of the loop body and i++.
GameRoundReturned ==
    /\ UNCHANGED <<harnessCall, rngSeed>>
    /\ UNCHANGED <<buttonDown, correctLatencies, allMatched, scoreAtRoundEntry>>
    /\ pc = "round" /\ state = "END"
    /\ LET roundLost == ~roundWon
           lives == livesAfterRound(remainingLives, roundLost)
       IN  /\ remainingLives' = lives
           /\ gameLost' = (gameLost \/ lives < 1)
           /\ lostRounds' = IF roundLost THEN lostRounds + 1 ELSE lostRounds
    /\ roundIndex' = roundIndex + 1
    /\ pc' = "game_loop"
    /\ state' = "NONE"
    /\ roundSymbols' = <<>>
    /\ sequence' = <<>>
    /\ input' = 0
    /\ inputCount' = 0
    /\ timeToInput' = 0
    /\ totalInputTime' = 0
    /\ scoreIncrement' = 0
    /\ roundWon' = FALSE
    /\ latencySum' = 0
    /\ UNCHANGED <<eepVars, menuVars, bonusPoints, allFast, tableAtEntry>>

\* unsigned int bonusPoints = 100 * profile->roundCount.
gameWonBonus(roundCount) == (100 * roundCount) % UINT16

\* runGame: the loop is left and the player who won is awarded the bonus.
GameEnd ==
    /\ UNCHANGED <<harnessCall, rngSeed>>
    /\ UNCHANGED <<buttonDown, histVars>>
    /\ pc = "game_loop"
    /\ ~(roundIndex < runningProfile.roundCount /\ ~gameLost)
    /\ IF ~gameLost
       THEN /\ bonusPoints' = gameWonBonus(runningProfile.roundCount)
            /\ runningProfile' = [runningProfile EXCEPT !.score = ULAdd(@, bonusPoints')]
       ELSE UNCHANGED <<bonusPoints, runningProfile>>
    /\ pc' = "game_high_score"
    /\ UNCHANGED <<eepVars, menuState, configState, difficulty, configProfile, roundIndex,
                   remainingLives, gameLost, allFast, tableAtEntry, roundVars>>

\* runGame: the score is offered to the high score table; the player enters
\* an alias when it is a high score.
GameHighScore ==
    /\ UNCHANGED <<harnessCall, rngSeed>>
    /\ UNCHANGED <<buttonDown, histVars>>
    /\ pc = "game_high_score"
    /\ IF eep_isHighScore(eeprom, runningProfile.score)
       THEN \E alias \in GameAliases :
               LET newHS == [score |-> runningProfile.score, alias |-> alias]
               IN  eeprom' = eep_addHighScore(eeprom, newHS).mem
       ELSE UNCHANGED eeprom
    /\ pc' = "game_seed"
    /\ UNCHANGED <<lastCall, addCalls, tableInitialised, menuVars, gameVars, roundVars>>

\* A runGame that seeds the generator and does not store the seed.
GameNextSeed_NotStored ==
    /\ UNCHANGED harnessCall
    /\ UNCHANGED <<buttonDown, histVars>>
    /\ pc = "game_seed"
    /\ \E nextSeed \in NextSeeds : rngSeed' = UL(nextSeed)
    /\ pc' = "game_returned"
    /\ UNCHANGED <<eepVars, menuVars, gameVars, roundVars>>

\* pow(base, exponent) for whole numbers, whose double result is exact and
\* converts to the same long.
RECURSIVE pow(_, _)
pow(base, exponent) == IF exponent = 0 THEN 1 ELSE base * pow(base, exponent - 1)

\* A random(min, max) that may return max.
random_Inclusive(min, max) == IF min >= max THEN {min} ELSE min..max

\* The values random(min, max) may return: min when min >= max, else those
\* of random(max - min) + min.
random(min, max) == IF min >= max THEN {min} ELSE min..(max - 1)

\* The draws of the next seed that are followed: all of them when the end of
\* runGame runs on its own, NextSeeds of them otherwise.
SeedDraws ==
    IF harnessCall.op = "nextSeed"
    THEN random(0, pow(2, SIZEOF_LONG))
    ELSE random(0, pow(2, SIZEOF_LONG)) \cap NextSeeds

\* runGame: the next seed is drawn and stored; nextSeed = random(0, 16).
GameNextSeed ==
    /\ UNCHANGED harnessCall
    /\ UNCHANGED <<buttonDown, histVars>>
    /\ pc = "game_seed"
    /\ \E nextSeed \in SeedDraws :
          /\ rngSeed' = UL(nextSeed)
          /\ eeprom' = eep_writeSeed(eeprom, UL(nextSeed))
    /\ pc' = "game_returned"
    /\ UNCHANGED <<lastCall, addCalls, tableInitialised, menuVars, gameVars, roundVars>>

NextGame ==
    \/ StartPracticeGame
    \/ StartStoryGame
    \/ GameNextRound
    \/ RoundStart
    \/ RoundInitialising
    \/ RoundDisplayingSequence
    \/ RoundGettingInput
    \/ RoundTimedOut
    \/ RoundComparingInput
    \/ RoundCorrectInput
    \/ RoundIncorrectInput
    \/ RoundRoundWon
    \/ RoundRoundLost
    \/ GameRoundReturned
    \/ GameEnd
    \/ GameHighScore
    \/ GameNextSeed

SpecGame == InitGame /\ [][NextGame]_vars

(***************************************************************************)
(* The generator on its own: chooseRandomSymbols and                       *)
(* generateSymbolSequence for every argument and every draw.               *)
(***************************************************************************)
\* Nothing but the function under test runs.
HarnessIdle ==
    /\ EepFresh
    /\ menuState = "PRACTICE"
    /\ configState = "END"
    /\ rngSeed = eep_readSeed(eeprom)
    /\ difficulty = "EASY"
    /\ configProfile = initPracticeGameProfile
    /\ GameIdle
    /\ state = "NONE"
    /\ input = 0
    /\ inputCount = 0
    /\ timeToInput = 0
    /\ totalInputTime = 0
    /\ scoreIncrement = 0
    /\ roundWon = FALSE
    /\ latencySum = 0

\* chooseRandomSymbols is about to be called on a catalog of symbolsLength
\* symbols for destinationLength of them; draws are the values random returns.
InitChoose ==
    /\ pc = "choose"
    /\ HarnessIdle
    /\ runningProfile = initPracticeGameProfile
    /\ roundSymbols = <<>>
    /\ sequence = <<>>
    /\ \E symbolsLength \in 1..MaxCatalog :
       \E destinationLength \in 0..symbolsLength :
       \E draws \in [0..(destinationLength - 1) -> 0..(symbolsLength - 1)] :
          harnessCall = [op |-> "chooseRandomSymbols",
                         symbolsLength |-> symbolsLength,
                         destinationLength |-> destinationLength,
                         draws |-> draws]

CallChooseRandomSymbols ==
    /\ pc = "choose"
    /\ roundSymbols' = chooseRandomSymbols(harnessCall.symbolsLength,
                                           harnessCall.destinationLength, harnessCall.draws)
    /\ pc' = "chosen"
    /\ UNCHANGED <<eepVars, menuVars, gameVars, buttonDown, histVars, harnessCall, rngSeed, state,
                   sequence, input, inputCount, timeToInput, totalInputTime,
                   scoreIncrement, roundWon, latencySum>>

NextChoose == CallChooseRandomSymbols

SpecChoose == InitChoose /\ [][NextChoose]_vars

\* generateSymbolSequence is about to be called with uniqueSymbols chosen
\* symbols for a sequence of sequenceLength.
InitGenerate ==
    /\ pc = "generate"
    /\ HarnessIdle
    /\ harnessCall = NoHarnessCall
    /\ \E uniqueSymbols \in ROUNDP_UNIQUE_SYMBOLS_MIN..ROUNDP_UNIQUE_SYMBOLS_MAX :
       \E sequenceLength \in ROUNDP_SEQUENCE_LENGTH_MIN..MaxGenLen :
          /\ runningProfile = [initPracticeGameProfile EXCEPT
                                  !.uniqueSymbols = uniqueSymbols,
                                  !.sequenceLength = sequenceLength]
          /\ \E chosen \in ChooseDraws(runningProfile) :
                roundSymbols = chooseRandomSymbols(ROUNDP_SYMBOLS_LENGTH, uniqueSymbols, chosen)
    /\ sequence = <<>>

\* One pass of the while loop of generateSymbolSequence: the sequence is drawn
\* and tested; the function returns when the test succeeds.
GeneratePass ==
    /\ pc = "generate"
    /\ \E draws \in [0..(runningProfile.sequenceLength - 1) ->
                        0..(runningProfile.uniqueSymbols - 1)] :
          LET seq == DrawSequence(roundSymbols, draws, runningProfile.sequenceLength)
          IN  /\ sequence' = seq
              /\ pc' = IF containsAllSymbols(roundSymbols, seq, runningProfile.uniqueSymbols,
                                             runningProfile.sequenceLength)
                       THEN "generated" ELSE "generate"
    /\ UNCHANGED <<eepVars, menuVars, gameVars, buttonDown, histVars, harnessCall, rngSeed, state,
                   roundSymbols, input, inputCount, timeToInput, totalInputTime,
                   scoreIncrement, roundWon, latencySum>>

NextGenerate == GeneratePass

SpecGenerate == InitGenerate /\ [][NextGenerate]_vars

(***************************************************************************)
(* The timed input: one call of disp_timedButtonPress from GETTING_INPUT.   *)
(***************************************************************************)
\* The input times the round is played with: the limits and the Practice default.
TimedInputTimes ==
    {ROUNDP_INPUT_TIME_MIN, initPracticeGameProfile.inputTime, ROUNDP_INPUT_TIME_MAX}

\* The moves of the player during one call of disp_timedButtonPress.
TimedMoves ==
    [startTime : {UL(0), [hi |-> UINT16 - 1, lo |-> UINT16 - RolloverMargin]},
     released : BOOLEAN,
     pressed : {NONE_BUTTON, SELECT_BUTTON, RIGHT_BUTTON, DOWN_BUTTON,
                UP_BUTTON + RIGHT_BUTTON, SELECT_BUTTON + LEFT_BUTTON},
     at : {0, QuarterSecond, ROUNDP_INPUT_TIME_MIN - 1, ROUNDP_INPUT_TIME_MIN,
           ROUNDP_INPUT_TIME_MAX - 1, ROUNDP_INPUT_TIME_MAX},
     overshoot : TimeoutOvershoots]

\* The first round of a Practice game has shown its sequence and is about to
\* read the first input; a button may still be down from the menu or from an
\* earlier game.
InitTimed ==
    /\ pc = "round"
    /\ state = "GETTING_INPUT"
    /\ eeprom = eep_writeSeed(eep_initialiseHighScoreTable(ErasedEeprom), UL(0))
    /\ lastCall = NoCall
    /\ addCalls = 0
    /\ tableInitialised = TRUE
    /\ menuState = "PRACTICE"
    /\ configState = "END"
    /\ rngSeed = eep_readSeed(eeprom)
    /\ difficulty = "EASY"
    /\ \E inputTime \in TimedInputTimes :
          configProfile = [initPracticeGameProfile EXCEPT !.inputTime = inputTime]
    /\ runningProfile = configProfile
    /\ roundIndex = 0
    /\ remainingLives = runningProfile.lifeCount
    /\ gameLost = FALSE
    /\ bonusPoints = 0
    /\ allFast = TRUE
    /\ tableAtEntry = eep_readHighScoreTable(eeprom)
    /\ buttonDown \in BOOLEAN
    /\ correctLatencies = EmptyBag
    /\ allMatched = TRUE
    /\ scoreAtRoundEntry = UL(0)
    /\ lostRounds = 0
    /\ \E chosen \in ChooseDraws(runningProfile) :
          roundSymbols = chooseRandomSymbols(ROUNDP_SYMBOLS_LENGTH,
                                             runningProfile.uniqueSymbols, chosen)
    /\ sequence = DrawSequence(roundSymbols,
                               [i \in 0..(runningProfile.sequenceLength - 1) |->
                                   i % runningProfile.uniqueSymbols],
                               runningProfile.sequenceLength)
    /\ input = 0
    /\ inputCount = 0
    /\ timeToInput = 0
    /\ totalInputTime = 0
    /\ scoreIncrement = 0
    /\ roundWon = FALSE
    /\ latencySum = 0
    /\ \E move \in TimedMoves :
          harnessCall = [op |-> "disp_timedButtonPress", move |-> move]

NextTimed == RoundGettingInput

SpecTimed == InitTimed /\ [][NextTimed]_vars

(***************************************************************************)
(* The random strategy: one call of randomRoundComplexity.                 *)
(***************************************************************************)
\* The times of the profiles the strategy is called on run from the minimum
\* over MaxTimeSteps steps of TimeStep milliseconds, the top of the range
\* being added.  The configuration menu moves a time by 100 ms and the
\* strategy by 250 ms, so every multiple of 50 ms in the range is reached.
MaxTimeSteps == 10

TimeStep == 50

ComplexityDisplayTimes ==
    {ROUNDP_DISPLAY_TIME_MIN + TimeStep * i : i \in 0..MaxTimeSteps}
        \cup {ROUNDP_DISPLAY_TIME_MAX}

ComplexityInputTimes ==
    {ROUNDP_INPUT_TIME_MIN + TimeStep * i : i \in 0..MaxTimeSteps}
        \cup {ROUNDP_INPUT_TIME_MAX}

\* The sequence lengths: the shortest and those next to the longest.
ComplexitySequenceLengths ==
    {ROUNDP_SEQUENCE_LENGTH_MIN}
        \cup ((ROUNDP_SEQUENCE_LENGTH_MAX - 2)..ROUNDP_SEQUENCE_LENGTH_MAX)

\* randomRoundComplexity is about to be called in round roundNumber of a
\* Practice game on a profile set up in the configuration menu and changed by
\* the calls of the earlier rounds; draw is the value random(0, 4) returns.
InitComplexity ==
    /\ pc = "complexity"
    /\ HarnessIdle
    /\ roundSymbols = <<>>
    /\ sequence = <<>>
    /\ \E sequenceLength \in ComplexitySequenceLengths,
          uniqueSymbols \in ROUNDP_UNIQUE_SYMBOLS_MIN..ROUNDP_UNIQUE_SYMBOLS_MAX,
          displayTime \in ComplexityDisplayTimes,
          inputTime \in ComplexityInputTimes :
          runningProfile = [initPracticeGameProfile EXCEPT
                               !.sequenceLength = sequenceLength,
                               !.uniqueSymbols = uniqueSymbols,
                               !.displayTime = displayTime,
                               !.inputTime = inputTime,
                               !.isComplexityChanging = TRUE,
                               !.roundCount = GAMEP_ROUND_COUNT_MAX]
    /\ \E roundNumber \in 1..2, draw \in 0..3 :
          harnessCall = [op |-> "randomRoundComplexity",
                         before |-> runningProfile,
                         roundNumber |-> roundNumber,
                         draw |-> draw]

CallRandomRoundComplexity ==
    /\ pc = "complexity"
    /\ runningProfile' = randomRoundComplexity(runningProfile, harnessCall.roundNumber,
                                               harnessCall.draw)
    /\ pc' = "complexity_returned"
    /\ UNCHANGED <<eepVars, menuState, configState, difficulty, configProfile, gameVars, buttonDown,
                   histVars, harnessCall, rngSeed, roundVars>>

NextComplexity == CallRandomRoundComplexity

SpecComplexity == InitComplexity /\ [][NextComplexity]_vars

(***************************************************************************)
(* The profiles: the initialisers, the configuration menu and the          *)
(* strategies, applied in the orders runMenu and runGame allow.            *)
(***************************************************************************)
\* The number of button presses followed in the configuration menu.
MaxMenuInputs == 2

\* The number of rounds followed in a game whose strategy draws at random.
MaxRandomRounds == 3

ConfigStates ==
    {"ROUNDS", "LIVES", "SEQUENCE_LENGTH", "SYMBOLS", "DISPLAY_TIME", "INPUT_TIME",
     "COMPLEXITY", "RESET", "DEBUG_CONFIG", "BACK"}

\* The bytes disp_buttonPress returns: one button, or two together.
MenuInputs ==
    {SELECT_BUTTON, RIGHT_BUTTON, DOWN_BUTTON, UP_BUTTON, LEFT_BUTTON,
     UP_BUTTON + RIGHT_BUTTON}

\* Practice profiles with every field at an end of its range in the menu;
\* the menu reaches each of them from the profile of initPracticeGameProfile.
ConfiguredCorners ==
    {[initPracticeGameProfile EXCEPT !.roundCount = c.roundCount,
                                     !.lifeCount = c.lifeCount,
                                     !.sequenceLength = c.sequenceLength,
                                     !.uniqueSymbols = c.uniqueSymbols,
                                     !.displayTime = c.displayTime,
                                     !.inputTime = c.inputTime,
                                     !.isComplexityChanging = c.isComplexityChanging] :
        c \in [roundCount : {GAMEP_ROUND_COUNT_MIN, GAMEP_ROUND_COUNT_MAX,
                             GAMEP_ROUND_COUNT_INF},
               lifeCount : {GAMEP_LIFE_COUNT_MIN, GAMEP_LIFE_COUNT_MAX},
               sequenceLength : {ROUNDP_SEQUENCE_LENGTH_MIN, ROUNDP_SEQUENCE_LENGTH_MAX},
               uniqueSymbols : {ROUNDP_UNIQUE_SYMBOLS_MIN, ROUNDP_UNIQUE_SYMBOLS_MAX},
               displayTime : {ROUNDP_DISPLAY_TIME_MIN, ROUNDP_DISPLAY_TIME_MAX},
               inputTime : {ROUNDP_INPUT_TIME_MIN, ROUNDP_INPUT_TIME_MAX},
               isComplexityChanging : BOOLEAN]}

\* runMenu shows Configure, or the configuration menu is open on one of its
\* pages; the Practice profile is as initialised or has been set to a corner.
InitProfile ==
    /\ pc = "profile"
    /\ EepFresh
    /\ menuState = "OPTIONS"
    /\ configState \in ConfigStates \cup {"END"}
    /\ rngSeed = eep_readSeed(eeprom)
    /\ difficulty = "EASY"
    /\ configProfile \in ConfiguredCorners \cup {initPracticeGameProfile}
    /\ runningProfile = initPracticeGameProfile
    /\ GameIdle
    /\ RoundIdle
    /\ harnessCall = [op |-> "profile", inputs |-> 0, started |-> FALSE]

ProfileFrame ==
    UNCHANGED <<lastCall, addCalls, gameVars, roundVars, buttonDown, histVars>>

\* runMenu, case OPTIONS, SELECT pressed: runConfigurationMenu is entered.
OpenConfigurationMenu ==
    /\ pc = "profile"
    /\ configState = "END"
    /\ harnessCall.inputs < MaxMenuInputs
    /\ configState' = "ROUNDS"
    /\ menuState' = "OPTIONS"
    /\ harnessCall' = [harnessCall EXCEPT !.started = FALSE]
    /\ UNCHANGED rngSeed
    /\ UNCHANGED <<pc, eeprom, tableInitialised, difficulty, configProfile, runningProfile>>
    /\ ProfileFrame

\* One pass of the loop of runConfigurationMenu, with the reset of case RESET.
ConfigurationMenuInput ==
    /\ pc = "profile"
    /\ configState # "END"
    /\ harnessCall.inputs < MaxMenuInputs
    /\ \E in \in MenuInputs :
          LET pass == runConfigurationMenu(configProfile, configState, in)
          IN  /\ configProfile' = pass.profile
              /\ configState' = pass.state
              /\ IF pass.reset
                 THEN /\ eeprom' = eep_writeSeed(eep_initialiseHighScoreTable(eeprom), UL(0))
                      /\ tableInitialised' = TRUE
                 ELSE UNCHANGED <<eeprom, tableInitialised>>
    /\ harnessCall' = [harnessCall EXCEPT !.inputs = @ + 1]
    /\ UNCHANGED rngSeed
    /\ UNCHANGED <<pc, menuState, difficulty, runningProfile>>
    /\ ProfileFrame

\* runMenu, SELECT pressed in case PRACTICE or, for a difficulty, in case
\* STORY: the running profile is copied or initialised for runGame.
CallInitGameProfile ==
    /\ pc = "profile"
    /\ configState = "END"
    /\ \E mode \in {"PRACTICE", "EASY", "MEDIUM", "HARD", "MIRROR"} :
          /\ menuState' = IF mode = "PRACTICE" THEN "PRACTICE" ELSE "STORY"
          /\ difficulty' = IF mode = "PRACTICE" THEN difficulty ELSE mode
          /\ runningProfile' = CASE mode = "PRACTICE" -> configProfile
                                 [] mode = "EASY"   -> initEasyGameProfile
                                 [] mode = "MEDIUM" -> initMediumGameProfile
                                 [] mode = "HARD"   -> initHardGameProfile
                                 [] mode = "MIRROR" -> initMirrorGameProfile
    /\ roundIndex' = 0
    /\ harnessCall' = [harnessCall EXCEPT !.started = TRUE]
    /\ UNCHANGED rngSeed
    /\ UNCHANGED <<pc, eepVars, configState, configProfile, remainingLives, gameLost,
                   bonusPoints, allFast, tableAtEntry, roundVars, buttonDown, histVars>>

\* runGame: the call of the strategy at the head of round roundIndex + 1.
CallChangeRoundComplexity ==
    /\ pc = "profile"
    /\ harnessCall.started
    /\ roundIndex < runningProfile.roundCount
    /\ (runningProfile.changeRoundComplexity = "randomRoundComplexity")
           => (roundIndex < MaxRandomRounds)
    /\ \E draw \in 0..3 :
          runningProfile' = IF runningProfile.isComplexityChanging
                            THEN changeRoundComplexity(runningProfile, roundIndex + 1, draw)
                            ELSE runningProfile
    /\ roundIndex' = roundIndex + 1
    /\ UNCHANGED <<pc, eepVars, menuState, configState, difficulty, configProfile,
                   remainingLives, gameLost, bonusPoints, allFast, tableAtEntry,
                   roundVars, buttonDown, histVars, harnessCall, rngSeed>>

NextProfile ==
    \/ OpenConfigurationMenu
    \/ ConfigurationMenuInput
    \/ CallInitGameProfile
    \/ CallChangeRoundComplexity

SpecProfile == InitProfile /\ [][NextProfile]_vars

(***************************************************************************)
(* The storage functions on their own: a value is written and read back.   *)
(***************************************************************************)
\* Addresses at the seed, in the table, at the last places with room for a
\* value, and past them up to the largest unsigned int.
PrimAddresses ==
    {0, 1, 4, 83, 84, EEPROM_LENGTH - 5, EEPROM_LENGTH - 4, EEPROM_LENGTH - 3,
     EEPROM_LENGTH - 1, EEPROM_LENGTH, EEPROM_LENGTH + 1, UINT16 - 1}

\* Table indexes: first, second, last, and past the table.
PrimTableIndexes ==
    {0, 1, EEP_HIGH_SCORE_TABLE_SIZE - 1, EEP_HIGH_SCORE_TABLE_SIZE,
     EEP_HIGH_SCORE_TABLE_SIZE + 1, UINT16 - 1}

\* Unsigned longs with four different bytes, with the top bit set, and others.
PrimULongs ==
    {UL(0), UL(6000), [hi |-> 258, lo |-> 772], [hi |-> 32768, lo |-> 1],
     [hi |-> UINT16 - 1, lo |-> UINT16 - 1]}

\* chars (signed, 8 bit).
PrimChars == {0 - 128, 0 - 1, 0, 65, 127}

PrimHighScores ==
    {[score |-> s, alias |-> a] :
        s \in {UL(6500), [hi |-> 258, lo |-> 772]},
        a \in {<<74, 77, 84, 0>>, <<0 - 1, 0 - 128, 127, 65>>}}

\* Storage contents: never written, after Reset System, and after a game
\* that entered a high score and stored the seed 15.
PrimStores ==
    LET reset == eep_writeSeed(eep_initialiseHighScoreTable(ErasedEeprom), UL(0))
    IN  {ErasedEeprom, reset,
         eep_writeSeed(eep_addHighScore(reset, [score |-> UL(6500),
                                                alias |-> <<65, 65, 65, 0>>]).mem,
                       UL(15))}

\* The calls: the kind of value, where it goes and the value.
PrimCalls ==
    {[op |-> "unsigned long", address |-> a, tableIndex |-> 0, data |-> v, char |-> 0,
      hs |-> NoCall.arg, result |-> UL(0)] : a \in PrimAddresses, v \in PrimULongs}
    \cup
    {[op |-> "char", address |-> a, tableIndex |-> 0, data |-> UL(0), char |-> c,
      hs |-> NoCall.arg, result |-> 0] : a \in PrimAddresses, c \in PrimChars}
    \cup
    {[op |-> "HighScore", address |-> 0, tableIndex |-> i, data |-> UL(0), char |-> 0,
      hs |-> h, result |-> NoCall.arg] : i \in PrimTableIndexes, h \in PrimHighScores}
    \cup
    {[op |-> "seed", address |-> EEP_SEED_ADDRESS, tableIndex |-> 0, data |-> v, char |-> 0,
      hs |-> NoCall.arg, result |-> UL(0)] : v \in PrimULongs}

InitPrim ==
    /\ pc = "prim"
    /\ eeprom \in PrimStores
    /\ lastCall = NoCall
    /\ addCalls = 0
    /\ tableInitialised = (eeprom # ErasedEeprom)
    /\ MenuAtBoot
    /\ GameIdle
    /\ RoundIdle
    /\ harnessCall \in PrimCalls

\* eep_writeULong, eep_writeChar, eep_writeHighScore or eep_writeSeed.
PrimWrite ==
    /\ pc = "prim"
    /\ eeprom' = CASE harnessCall.op = "unsigned long" ->
                        eep_writeULong(eeprom, harnessCall.data, harnessCall.address)
                   [] harnessCall.op = "char" ->
                        eep_writeChar(eeprom, harnessCall.char, harnessCall.address)
                   [] harnessCall.op = "HighScore" ->
                        eep_writeHighScore(eeprom, harnessCall.hs, harnessCall.tableIndex)
                   [] harnessCall.op = "seed" ->
                        eep_writeSeed(eeprom, harnessCall.data)
    /\ lastCall' = [NoCall EXCEPT !.op = "write", !.before = eeprom]
    /\ pc' = "prim_written"
    /\ UNCHANGED <<addCalls, tableInitialised, menuVars, gameVars, roundVars, buttonDown,
                   histVars, harnessCall, rngSeed>>

\* eep_readULong, eep_readChar, eep_readHighScore or eep_readSeed of what was
\* written.  eep_readHighScore returns its uninitialised local when the index
\* is past the table: any HighScore.
PrimRead ==
    /\ pc = "prim_written"
    /\ \E result \in
          CASE harnessCall.op = "unsigned long" ->
                  {eep_readULong(eeprom, harnessCall.address)}
            [] harnessCall.op = "char" ->
                  {eep_readChar(eeprom, harnessCall.address)}
            [] harnessCall.op = "HighScore" ->
                  IF harnessCall.tableIndex < EEP_HIGH_SCORE_TABLE_SIZE
                  THEN {eep_readHighScore(eeprom, harnessCall.tableIndex)}
                  ELSE PrimHighScores
            [] harnessCall.op = "seed" ->
                  {eep_readSeed(eeprom)} :
          harnessCall' = [harnessCall EXCEPT !.result = result]
    /\ UNCHANGED rngSeed
    /\ pc' = "prim_read"
    /\ UNCHANGED <<eepVars, menuVars, gameVars, roundVars, buttonDown, histVars>>

NextPrim == PrimWrite \/ PrimRead

SpecPrim == InitPrim /\ [][NextPrim]_vars

(***************************************************************************)
(* A session: power on, setup, the main menu with the configuration menu,  *)
(* and a game.                                                             *)
(***************************************************************************)
\* No randomSeed call has been made.
NoSeed == [hi |-> 0 - 1, lo |-> 0 - 1]

\* runMenu: the switch of the loop for an input that does not enter a game,
\* the leaderboard or the configuration menu.
runMenu(st, diff, in) ==
    LET stay == [state |-> st, difficulty |-> diff]
        goto(s) == [stay EXCEPT !.state = s]
        to(d) == [stay EXCEPT !.difficulty = d]
    IN  CASE st = "PRACTICE" ->
                IF (in \div DOWN_BUTTON) % 2 = 1 THEN goto("STORY") ELSE stay
          [] st = "STORY" ->
                CASE in = UP_BUTTON -> goto("PRACTICE")
                  [] in = DOWN_BUTTON -> goto("SCORE")
                  [] in = LEFT_BUTTON ->
                        CASE diff = "MEDIUM" -> to("EASY")
                          [] diff = "HARD" -> to("MEDIUM")
                          [] diff = "MIRROR" -> to("HARD")
                          [] OTHER -> stay
                  [] in = RIGHT_BUTTON ->
                        CASE diff = "EASY" -> to("MEDIUM")
                          [] diff = "MEDIUM" -> to("HARD")
                          [] diff = "HARD" -> to("MIRROR")
                          [] OTHER -> stay
                  [] OTHER -> stay
          [] st = "SCORE" ->
                CASE in = UP_BUTTON -> goto("STORY")
                  [] in = DOWN_BUTTON -> goto("OPTIONS")
                  [] OTHER -> stay
          [] st = "OPTIONS" ->
                CASE in = UP_BUTTON -> goto("SCORE")
                  [] OTHER -> stay

\* The buttons pressed in the configuration menu during a session: the pages
\* are walked and SELECT is pressed on them.
SessionConfigInputs == {SELECT_BUTTON, DOWN_BUTTON, UP_BUTTON}

\* Power on.  The storage is as it was left when the power went off.
InitBoot ==
    /\ pc = "boot"
    /\ eeprom \in PrimStores
    /\ lastCall = NoCall
    /\ addCalls = 0
    /\ tableInitialised = (eeprom # ErasedEeprom)
    /\ rngSeed = NoSeed
    /\ menuState = "PRACTICE"
    /\ configState = "END"
    /\ difficulty = "EASY"
    /\ configProfile = initPracticeGameProfile
    /\ runningProfile = initPracticeGameProfile
    /\ GameIdle
    /\ RoundIdle
    /\ harnessCall = NoHarnessCall

\* setup: randomSeed(eep_readSeed()), then runMenu is entered and declares
\* its locals.
Setup ==
    /\ pc = "boot"
    /\ rngSeed' = eep_readSeed(eeprom)
    /\ pc' = "menu"
    /\ UNCHANGED <<eepVars, menuVars, gameVars, roundVars, buttonDown, histVars, harnessCall>>

\* runMenu: one pass of the loop that stays in the menu.
MenuInput ==
    /\ pc = "menu"
    /\ configState = "END"
    /\ \E in \in MenuInputs :
          LET pass == runMenu(menuState, difficulty, in)
          IN  /\ menuState' = pass.state
              /\ difficulty' = pass.difficulty
    /\ UNCHANGED <<pc, eepVars, configState, configProfile, runningProfile, gameVars,
                   roundVars, buttonDown, histVars, harnessCall, rngSeed>>

\* runMenu, case OPTIONS, SELECT pressed.
SessionOpenConfigurationMenu ==
    /\ pc = "menu"
    /\ menuState = "OPTIONS"
    /\ configState = "END"
    /\ configState' = "ROUNDS"
    /\ UNCHANGED <<pc, eepVars, menuState, difficulty, configProfile, runningProfile,
                   gameVars, roundVars, buttonDown, histVars, harnessCall, rngSeed>>

\* One pass of the loop of runConfigurationMenu, with the reset of case RESET.
SessionConfigurationMenuInput ==
    /\ pc = "menu"
    /\ configState # "END"
    /\ \E in \in SessionConfigInputs :
          LET pass == runConfigurationMenu(configProfile, configState, in)
          IN  /\ configProfile' = pass.profile
              /\ configState' = pass.state
              /\ IF pass.reset
                 THEN /\ eeprom' = eep_writeSeed(eep_initialiseHighScoreTable(eeprom), UL(0))
                      /\ tableInitialised' = TRUE
                 ELSE UNCHANGED <<eeprom, tableInitialised>>
    /\ UNCHANGED <<pc, lastCall, addCalls, menuState, difficulty, runningProfile, gameVars,
                   roundVars, buttonDown, histVars, harnessCall, rngSeed>>

\* runMenu, case PRACTICE, SELECT pressed in the main menu.
SessionStartPracticeGame ==
    /\ configState = "END"
    /\ StartPracticeGame

\* runMenu, case STORY, SELECT pressed in the main menu.
SessionStartStoryGame ==
    /\ configState = "END"
    /\ StartStoryGame

NextBoot ==
    \/ Setup
    \/ MenuInput
    \/ SessionOpenConfigurationMenu
    \/ SessionConfigurationMenuInput
    \/ SessionStartPracticeGame
    \/ SessionStartStoryGame
    \/ GameNextRound
    \/ RoundStart
    \/ RoundInitialising
    \/ RoundDisplayingSequence
    \/ RoundGettingInput
    \/ RoundTimedOut
    \/ RoundComparingInput
    \/ RoundCorrectInput
    \/ RoundIncorrectInput
    \/ RoundRoundWon
    \/ RoundRoundLost
    \/ GameRoundReturned
    \/ GameEnd
    \/ GameHighScore
    \/ GameNextSeed

SpecBoot == InitBoot /\ [][NextBoot]_vars

(***************************************************************************)
(* The comparison of an input with the displayed symbol on its own.        *)
(***************************************************************************)
\* The bytes lcd.readButtons() returns with a button down: five flags.
ComparedInputs == 1..31

\* runRound of an Easy or Mirror game of Story Mode has read the first input
\* of the first round, a quarter of a second after the prompt, and is about
\* to compare it.
InitCompare ==
    /\ pc = "round"
    /\ state = "COMPARING_INPUT"
    /\ eeprom = eep_writeSeed(eep_initialiseHighScoreTable(ErasedEeprom), UL(0))
    /\ lastCall = NoCall
    /\ addCalls = 0
    /\ tableInitialised = TRUE
    /\ menuState = "STORY"
    /\ configState = "END"
    /\ rngSeed = eep_readSeed(eeprom)
    /\ difficulty \in {"EASY", "MIRROR"}
    /\ configProfile = initPracticeGameProfile
    /\ runningProfile = IF difficulty = "MIRROR" THEN initMirrorGameProfile
                                                 ELSE initEasyGameProfile
    /\ roundIndex = 0
    /\ remainingLives = runningProfile.lifeCount
    /\ gameLost = FALSE
    /\ bonusPoints = 0
    /\ allFast = TRUE
    /\ tableAtEntry = eep_readHighScoreTable(eeprom)
    /\ buttonDown = TRUE
    /\ scoreAtRoundEntry = UL(0)
    /\ lostRounds = 0
    /\ \E chosen \in [0..(runningProfile.uniqueSymbols - 1) -> 0..(ROUNDP_SYMBOLS_LENGTH - 1)] :
          roundSymbols = chooseRandomSymbols(ROUNDP_SYMBOLS_LENGTH,
                                             runningProfile.uniqueSymbols, chosen)
    /\ sequence = DrawSequence(roundSymbols,
                               [i \in 0..(runningProfile.sequenceLength - 1) |->
                                   i % runningProfile.uniqueSymbols],
                               runningProfile.sequenceLength)
    /\ input \in ComparedInputs
    /\ inputCount = 1
    /\ timeToInput = QuarterSecond
    /\ totalInputTime = QuarterSecond
    /\ scoreIncrement = 0
    /\ roundWon = FALSE
    /\ latencySum = QuarterSecond
    /\ allMatched = (inputToSymbolValue(runningProfile, input) = ArrowSymbolValue[sequence[0]])
    /\ correctLatencies = IF allMatched THEN SetToBag({QuarterSecond}) ELSE EmptyBag
    /\ harnessCall = NoHarnessCall

NextCompare == RoundComparingInput

SpecCompare == InitCompare /\ [][NextCompare]_vars

(***************************************************************************)
(* generateSymbolSequence on its own, for any two lengths.                 *)
(***************************************************************************)
\* generateSymbolSequence is about to be called with symbolsLength chosen
\* symbols for a sequence of sequenceLength; the two arguments are held in
\* the fields uniqueSymbols and sequenceLength of the running profile.
InitGenerateAny ==
    /\ pc = "generate"
    /\ HarnessIdle
    /\ harnessCall = NoHarnessCall
    /\ \E symbolsLength \in 1..ROUNDP_UNIQUE_SYMBOLS_MAX :
       \E sequenceLength \in 1..MaxPassLen :
          /\ runningProfile = [initPracticeGameProfile EXCEPT
                                  !.uniqueSymbols = symbolsLength,
                                  !.sequenceLength = sequenceLength]
          /\ roundSymbols = chooseRandomSymbols(ROUNDP_SYMBOLS_LENGTH, symbolsLength,
                                                [i \in 0..(symbolsLength - 1) |-> i])
    /\ sequence = <<>>

NextGenerateAny == GeneratePass

\* A pass of generateSymbolSequence that draws the index s at position j.
PassDrawing(j, s) ==
    /\ j < runningProfile.sequenceLength
    /\ s < runningProfile.uniqueSymbols
    /\ GeneratePass
    /\ sequence'[j] = roundSymbols[s]

\* The random source is fair: whenever passes go on being made, every
\* index is drawn at every position.
FairDraws ==
    \A j \in 0..(MaxPassLen - 1) : \A s \in 0..(ROUNDP_UNIQUE_SYMBOLS_MAX - 1) :
        SF_vars(PassDrawing(j, s))

\* The processor goes on running the loop: a pass that can be made is made.
SpecGenerateFair == InitGenerateAny /\ [][NextGenerateAny]_vars /\ WF_vars(GeneratePass)

(***************************************************************************)
(* The end of runGame on its own: the next seed is drawn and stored.       *)
(***************************************************************************)
\* runGame has dealt with the high score and is about to draw the next
\* seed.  The storage holds a reset table and either the seed of a reset
\* system, 0, or a seed an earlier game stored, or it is that of a board on
\* which no seed was ever written.
InitSeed ==
    /\ pc = "game_seed"
    /\ \/ eeprom = ErasedEeprom /\ tableInitialised = FALSE
       \/ /\ tableInitialised = TRUE
          /\ \E seed \in random(0, pow(2, SIZEOF_LONG)) :
                eeprom = eep_writeSeed(eep_initialiseHighScoreTable(ErasedEeprom), UL(seed))
    /\ lastCall = NoCall
    /\ addCalls = 0
    /\ harnessCall = [op |-> "nextSeed", before |-> eep_readSeed(eeprom)]
    /\ MenuAtBoot
    /\ GameIdle
    /\ RoundIdle

NextSeed == GameNextSeed

SpecSeed == InitSeed /\ [][NextSeed]_vars

(***************************************************************************)
(* eep_addHighScore one EEPROM.update at a time, with the supply failing   *)
(* between any two of them.                                                *)
(***************************************************************************)
\* Aliases offered to the interrupted calls: those of the harness and the
\* alias of the dummy records.
InterruptAliases == HarnessAliases \cup {<<74, 77, 84, 0>>}

\* The byte that eep_writeHighScore stores at offset byteIndex of a record.
StoredByte(hs, byteIndex) ==
    EEPROM_read(eep_writeHighScore(ErasedEeprom, hs, 0), EEP_HIGH_SCORE_TABLE_ADDRESS + byteIndex)

\* The storage holds the table of a reset system; no call is in progress.
InitInterrupt ==
    /\ pc = "eep_idle"
    /\ eeprom = eep_writeSeed(eep_initialiseHighScoreTable(ErasedEeprom), UL(0))
    /\ lastCall = NoCall
    /\ addCalls = 0
    /\ tableInitialised = TRUE
    /\ harnessCall = NoHarnessCall
    /\ MenuAtBoot
    /\ GameIdle
    /\ RoundIdle

\* eep_addHighScore is entered: isAdded is computed, and a rejected score
\* returns at once.
AddHighScoreEnter ==
    /\ pc = "eep_idle"
    /\ addCalls < MaxInterruptAdds
    /\ \E score \in HarnessScores, alias \in InterruptAliases :
          LET hs == [score |-> score, alias |-> alias]
          IN  IF eep_isHighScore(eeprom, score)
              THEN /\ pc' = "eep_writing"
                   /\ harnessCall' = [op |-> "eep_addHighScore", hs |-> hs, before |-> eeprom,
                                      completed |-> eep_addHighScore(eeprom, hs).mem,
                                      sorting |-> FALSE,
                                      highScoreTablep |-> eep_readHighScoreTable(eeprom),
                                      tableIndex |-> EEP_HIGH_SCORE_TABLE_SIZE - 1,
                                      byteIndex |-> 0]
                   /\ UNCHANGED <<lastCall, addCalls>>
              ELSE /\ pc' = "eep_idle"
                   /\ lastCall' = [op |-> "add", arg |-> hs, ret |-> FALSE, before |-> eeprom]
                   /\ addCalls' = addCalls + 1
                   /\ UNCHANGED harnessCall
    /\ UNCHANGED <<eeprom, tableInitialised, menuVars, gameVars, roundVars, buttonDown,
                   histVars, rngSeed>>

\* A step that stores a whole record at once.
AddHighScoreUpdate_WholeRecord ==
    /\ pc = "eep_writing"
    /\ LET c      == harnessCall
           record == IF c.sorting THEN c.highScoreTablep[c.tableIndex] ELSE c.hs
           stored == eep_writeHighScore(eeprom, record, c.tableIndex)
       IN  /\ eeprom' = stored
           /\ IF ~c.sorting
              THEN /\ harnessCall' = [c EXCEPT !.sorting = TRUE, !.tableIndex = 0,
                                               !.highScoreTablep =
                                                   SortPass(eep_readHighScoreTable(stored), 0)]
                   /\ UNCHANGED <<pc, lastCall, addCalls>>
              ELSE IF c.tableIndex < EEP_HIGH_SCORE_TABLE_SIZE - 1
              THEN /\ harnessCall' = [c EXCEPT !.tableIndex = c.tableIndex + 1]
                   /\ UNCHANGED <<pc, lastCall, addCalls>>
              ELSE /\ pc' = "eep_idle"
                   /\ harnessCall' = NoHarnessCall
                   /\ lastCall' = [op |-> "add", arg |-> c.hs, ret |-> TRUE, before |-> c.before]
                   /\ addCalls' = addCalls + 1
    /\ UNCHANGED <<tableInitialised, menuVars, gameVars, roundVars, buttonDown, histVars,
                   rngSeed>>

\* The next EEPROM.update of the call: first the eight bytes of the new
\* record at the last index, then, once the table has been read back and
\* its pointers sorted, the eight bytes of each of the ten records in turn.
AddHighScoreUpdate ==
    /\ pc = "eep_writing"
    /\ LET c       == harnessCall
           record  == IF c.sorting THEN c.highScoreTablep[c.tableIndex] ELSE c.hs
           address == EEP_HIGH_SCORE_TABLE_ADDRESS + c.tableIndex * SIZEOF_HIGHSCORE + c.byteIndex
           stored  == EEPROM_update(eeprom, address, StoredByte(record, c.byteIndex))
       IN  /\ eeprom' = stored
           /\ IF c.byteIndex < SIZEOF_HIGHSCORE - 1
              THEN /\ harnessCall' = [c EXCEPT !.byteIndex = c.byteIndex + 1]
                   /\ UNCHANGED <<pc, lastCall, addCalls>>
              ELSE IF ~c.sorting
              THEN /\ harnessCall' = [c EXCEPT !.sorting = TRUE, !.tableIndex = 0,
                                               !.byteIndex = 0,
                                               !.highScoreTablep =
                                                   SortPass(eep_readHighScoreTable(stored), 0)]
                   /\ UNCHANGED <<pc, lastCall, addCalls>>
              ELSE IF c.tableIndex < EEP_HIGH_SCORE_TABLE_SIZE - 1
              THEN /\ harnessCall' = [c EXCEPT !.tableIndex = c.tableIndex + 1, !.byteIndex = 0]
                   /\ UNCHANGED <<pc, lastCall, addCalls>>
              ELSE /\ pc' = "eep_idle"
                   /\ harnessCall' = NoHarnessCall
                   /\ lastCall' = [op |-> "add", arg |-> c.hs, ret |-> TRUE, before |-> c.before]
                   /\ addCalls' = addCalls + 1
    /\ UNCHANGED <<tableInitialised, menuVars, gameVars, roundVars, buttonDown, histVars,
                   rngSeed>>

\* The supply fails before the next EEPROM.update: the call never resumes
\* and the storage keeps what has been written.
PowerLoss ==
    /\ pc = "eep_writing"
    /\ pc' = "eep_cut"
    /\ UNCHANGED <<eepVars, menuVars, gameVars, roundVars, buttonDown, histVars, harnessCall,
                   rngSeed>>

NextInterrupt == AddHighScoreEnter \/ AddHighScoreUpdate \/ PowerLoss

SpecInterrupt == InitInterrupt /\ [][NextInterrupt]_vars

(***************************************************************************)
(* Claims about the high score table.                                      *)
(***************************************************************************)
HighScoreTable == eep_readHighScoreTable(eeprom)

TableBefore == eep_readHighScoreTable(lastCall.before)

\* Number of table slots holding the record r.
CountIn(table, r) == Cardinality({i \in DOMAIN table : table[i] = r})

\* The scores of the table are non-increasing from index 0 to index 9.
NonIncreasing(table) ==
    \A i \in 0..(EEP_HIGH_SCORE_TABLE_SIZE - 2) : ~ULLess(table[i].score, table[i + 1].score)

\* C1: once eep_initialiseHighScoreTable has run, after any sequence of
\* eep_addHighScore calls the stored table has exactly ten entries (indices
\* 0..9) and their scores are non-increasing from index 0 to index 9.
C1_TableSorted ==
    tableInitialised =>
        /\ DOMAIN HighScoreTable = 0..9
        /\ NonIncreasing(HighScoreTable)

\* An accepted insertion has happened after at least one earlier call.
C1_Witness ==
    /\ tableInitialised
    /\ lastCall.op = "add"
    /\ lastCall.ret
    /\ addCalls >= 2
    /\ HighScoreTable[0].score = UL(6500)

\* C2: in every table state reachable from eep_initialiseHighScoreTable by
\* eep_addHighScore calls, eep_isHighScore(score) is true exactly when score is
\* strictly greater than the score stored at index 9.
C2_IsHighScoreIffAboveLast ==
    tableInitialised =>
        \A score \in HarnessScores :
            eep_isHighScore(eeprom, score) <=> ULGreater(score, HighScoreTable[9].score)

\* After an insertion, a table for which some score qualifies, some score ties
\* with tenth place and some score is below it.
C2_Witness ==
    /\ tableInitialised
    /\ lastCall.op = "add"
    /\ lastCall.ret
    /\ \E score \in HarnessScores : eep_isHighScore(eeprom, score)
    /\ \E score \in HarnessScores :
          score = HighScoreTable[9].score /\ ~eep_isHighScore(eeprom, score)
    /\ \E score \in HarnessScores :
          ULLess(score, HighScoreTable[9].score) /\ ~eep_isHighScore(eeprom, score)

\* C3: eep_addHighScore called with a score strictly above the score at index 9
\* returns true, and the resulting table is, as a multiset of records, the
\* previous table minus the record that was at index 9 plus the new entry.
C3_AddEvictsOnlyLowest ==
    (lastCall.op = "add" /\ ULGreater(lastCall.arg.score, TableBefore[9].score)) =>
        /\ lastCall.ret
        /\ \A r \in {HighScoreTable[i] : i \in 0..9} \cup {TableBefore[i] : i \in 0..9}
                        \cup {lastCall.arg} :
              CountIn(HighScoreTable, r) =
                  CountIn(TableBefore, r)
                    - (IF r = TableBefore[9] THEN 1 ELSE 0)
                    + (IF r = lastCall.arg THEN 1 ELSE 0)

\* An accepted insertion into a table that already holds an inserted record.
C3_Witness ==
    /\ lastCall.op = "add"
    /\ ULGreater(lastCall.arg.score, TableBefore[9].score)
    /\ \E i \in 0..9 : TableBefore[i].alias # <<74, 77, 84, 0>>
    /\ lastCall.arg \in {HighScoreTable[i] : i \in 0..9}

\* C4: eep_addHighScore called with a score less than or equal to the score at
\* index 9 (a tie included) returns false and leaves every byte of the storage
\* unchanged.
C4_RejectedAddChangesNothing ==
    (lastCall.op = "add" /\ ~ULGreater(lastCall.arg.score, TableBefore[9].score)) =>
        /\ ~lastCall.ret
        /\ eeprom = lastCall.before

\* A rejected tie with tenth place on an initialised table.
C4_Witness ==
    /\ tableInitialised
    /\ lastCall.op = "add"
    /\ lastCall.arg.score = TableBefore[9].score
    /\ ~lastCall.ret

(***************************************************************************)
(* Claims about scoring.                                                   *)
(***************************************************************************)
\* C6: for every latency t, inputTimeToScore(t) = 100 + (50 if t <= 250)
\* + (25 if t <= 500) + (25 if t <= 1000), the conditions being cumulative; its
\* only results are 100, 125, 150 and 200, and it is non-increasing in t.
C6_ScoreFormula ==
    pc = "scored" =>
        /\ scoreIncrement = 100 + (IF timeToInput <= 250 THEN 50 ELSE 0)
                                + (IF timeToInput <= 500 THEN 25 ELSE 0)
                                + (IF timeToInput <= 1000 THEN 25 ELSE 0)
        /\ scoreIncrement \in {100, 125, 150, 200}
        /\ \A later \in timeToInput..ROUNDP_INPUT_TIME_MAX :
              inputTimeToScore(later) <= scoreIncrement

\* The input exactly on the quarter-second boundary has been scored.
C6_Witness == pc = "scored" /\ timeToInput = 250 /\ scoreIncrement = 200

\* C7 as stated: inputTimeToScore(0) = 200, inputTimeToScore(300) = 125,
\* inputTimeToScore(600) = 100 and inputTimeToScore(1500) = 100.
C7_Original ==
    pc = "scored" =>
        /\ (timeToInput = 0 => scoreIncrement = 200)
        /\ (timeToInput = 300 => scoreIncrement = 125)
        /\ (timeToInput = 600 => scoreIncrement = 100)
        /\ (timeToInput = 1500 => scoreIncrement = 100)

\* C7 amended: inputTimeToScore(0) = 200, inputTimeToScore(300) = 150,
\* inputTimeToScore(600) = 125 and inputTimeToScore(1500) = 100 (the bonuses
\* for half a second and for a second both apply at 300 ms, and the bonus for a
\* second applies at 600 ms).
C7_ScoreExamples ==
    pc = "scored" =>
        /\ (timeToInput = 0 => scoreIncrement = 200)
        /\ (timeToInput = 300 => scoreIncrement = 150)
        /\ (timeToInput = 600 => scoreIncrement = 125)
        /\ (timeToInput = 1500 => scoreIncrement = 100)

\* The 300 ms input has been scored.
C7_Witness == pc = "scored" /\ timeToInput = 300 /\ scoreIncrement = 150

(***************************************************************************)
(* Claims about runRound and runGame.                                      *)
(***************************************************************************)
\* profile->rProfile.score of the running game.
Score == runningProfile.score

\* runGame has left the loop and settled the completion bonus.
AfterGameEnd == pc \in {"game_high_score", "game_seed", "game_returned"}

\* runGame has offered the score to the high score table.
AfterHighScore == pc \in {"game_seed", "game_returned"}

\* C5: when runGame has offered the final score to the table, won or lost: a
\* score strictly above the lowest entry the table held at entry is in the
\* table afterwards, and any other score leaves the table as it was.
C5_FinalScoreOffered ==
    AfterHighScore =>
        IF ULGreater(Score, tableAtEntry[EEP_HIGH_SCORE_TABLE_SIZE - 1].score)
        THEN \E i \in 0..(EEP_HIGH_SCORE_TABLE_SIZE - 1) : HighScoreTable[i].score = Score
        ELSE HighScoreTable = tableAtEntry

\* A lost game whose score was inserted into the table.
C5_Witness ==
    /\ AfterHighScore
    /\ gameLost
    /\ ULGreater(Score, tableAtEntry[EEP_HIGH_SCORE_TABLE_SIZE - 1].score)
    /\ \E i \in 0..(EEP_HIGH_SCORE_TABLE_SIZE - 1) : HighScoreTable[i].score = Score
    /\ HighScoreTable # tableAtEntry

\* C8: the step that wins a round adds 75 x sequenceLength when the sum of the
\* latencies of the round is strictly below 500 x sequenceLength and
\* 50 x sequenceLength otherwise (300 or 200 for length 4); the steps of a
\* lost round add nothing.
C8_RoundBonus ==
    [][/\ (pc = "round" /\ state = "ROUND_WON") =>
            LET L == runningProfile.sequenceLength
                bonus == IF latencySum < 500 * L THEN 75 * L ELSE 50 * L
            IN  /\ Score' = ULAdd(Score, bonus)
                /\ L = 4 => bonus = (IF latencySum < 2000 THEN 300 ELSE 200)
       /\ (pc = "round" /\ (state \in {"TIMED_OUT", "INCORRECT_INPUT", "ROUND_LOST"}
                            \/ (state = "END" /\ ~roundWon))) =>
            Score' = Score]_vars

\* A first round of length 4 won with every latency exactly 500 ms: 4 x 150
\* points for the inputs and the lower bonus of 200.
C8_Witness ==
    /\ pc = "round" /\ state = "END" /\ roundWon
    /\ roundIndex = 0
    /\ runningProfile.sequenceLength = 4
    /\ latencySum = 2000
    /\ Score = UL(800)

\* C9: once the loop of runGame is left, a lost game has received no
\* completion bonus and a won game has received 100 x the number of rounds
\* played, whatever the configured round count.
C9_CompletionBonus ==
    AfterGameEnd =>
        IF gameLost THEN bonusPoints = 0 ELSE bonusPoints = 100 * roundIndex

\* C10: a game of one round and one life without progression in which every
\* input was correct within 250 ms is won with 200 x L + 75 x L + 100 points;
\* that is 1200 points for the default Practice profile.
C10_PerfectOneRoundGame ==
    (/\ AfterGameEnd
     /\ runningProfile.roundCount = 1
     /\ runningProfile.lifeCount = 1
     /\ ~runningProfile.isComplexityChanging
     /\ allFast) =>
        /\ ~gameLost
        /\ remainingLives = 1
        /\ roundIndex = 1
        /\ Score = UL(200 * runningProfile.sequenceLength
                      + 75 * runningProfile.sequenceLength + 100)
        /\ configProfile = initPracticeGameProfile => Score = UL(1200)

\* The default Practice game played perfectly has ended with 1200 points.
C10_Witness ==
    /\ pc = "game_returned"
    /\ menuState = "PRACTICE"
    /\ configProfile = initPracticeGameProfile
    /\ allFast
    /\ ~gameLost
    /\ Score = UL(1200)

(***************************************************************************)
(* Claims about lost rounds, the generator and the game loop.              *)
(***************************************************************************)
\* The points the specification gives a correct input of latency t.
SpecifiedInputScore(t) ==
    100 + (IF t <= 250 THEN 50 ELSE 0) + (IF t <= 500 THEN 25 ELSE 0)
        + (IF t <= 1000 THEN 25 ELSE 0)

\* The sum of SpecifiedInputScore over a bag of latencies.
RECURSIVE BagScore(_)
BagScore(B) ==
    IF DOMAIN B = {} THEN 0
    ELSE LET t == CHOOSE x \in DOMAIN B : TRUE
         IN  B[t] * SpecifiedInputScore(t) + BagScore([x \in DOMAIN B \ {t} |-> B[x]])

\* C11: a round whose first incorrect or timed-out input is input number p
\* reads no further input and ends lost, and when it returns the score has
\* grown over the round by the points of the p - 1 earlier correct inputs and
\* nothing else; with one life and p = 3 of 4 the return leaves 0 lives and the
\* game lost, and the score stays that of the 2 earlier inputs to the end.
C11_LostRoundScore ==
    [][/\ (pc = "round" /\ state \in {"TIMED_OUT", "INCORRECT_INPUT", "ROUND_LOST"}) =>
            /\ state' \in {"ROUND_LOST", "END"}
            /\ inputCount' = inputCount
            /\ ~roundWon'
            /\ Score' = Score
       /\ (pc = "round" /\ state = "END" /\ ~roundWon) =>
            /\ ~allMatched
            /\ BagCardinality(correctLatencies) = inputCount - 1
            /\ Score = ULAdd(scoreAtRoundEntry, BagScore(correctLatencies))
            /\ (runningProfile.lifeCount = 1 /\ runningProfile.sequenceLength = 4
                    /\ inputCount = 3) =>
                    /\ remainingLives' = 0
                    /\ gameLost'
                    /\ BagCardinality(correctLatencies) = 2
                    /\ Score' = Score
       /\ (pc = "game_loop" /\ gameLost) => (pc' = "game_high_score" /\ Score' = Score)]_vars

\* A one-life game of length 4 lost on the third input after a 250 ms and a
\* 500 ms correct input: 200 + 150 points.
C11_Witness ==
    /\ pc = "game_high_score"
    /\ gameLost
    /\ remainingLives = 0
    /\ runningProfile.lifeCount = 1
    /\ runningProfile.sequenceLength = 4
    /\ roundIndex = 1
    /\ ~allMatched
    /\ correctLatencies = SetToBag({QuarterSecond, HalfSecond})
    /\ Score = UL(350)

\* C12: for 2 <= k <= 4 <= n, the sequence generateSymbolSequence returns has
\* exactly n elements, each one of the k chosen symbols, and every one of the
\* k chosen symbols appears in it.
C12_SequenceCoversSymbols ==
    pc = "generated" =>
        LET k == runningProfile.uniqueSymbols
            n == runningProfile.sequenceLength
        IN  /\ 2 <= k /\ k <= 4 /\ 4 <= n
            /\ DOMAIN sequence = 0..(n - 1)
            /\ \A j \in 0..(n - 1) : \E i \in 0..(k - 1) : sequence[j] = roundSymbols[i]
            /\ \A i \in 0..(k - 1) : \E j \in 0..(n - 1) : sequence[j] = roundSymbols[i]

\* A sequence of length 5 over 4 symbols was returned: one of the symbols
\* appears twice.
C12_Witness ==
    /\ pc = "generated"
    /\ runningProfile.uniqueSymbols = 4
    /\ runningProfile.sequenceLength = 5
    /\ \E j \in 1..4 : sequence[j] = sequence[0]

\* C13: for a catalog of n symbols, 0 <= k <= n and any draws,
\* chooseRandomSymbols returns k references into the catalog that are
\* pairwise distinct.
C13_ChosenDistinct ==
    pc = "chosen" =>
        LET n == harnessCall.symbolsLength
            k == harnessCall.destinationLength
        IN  /\ DOMAIN roundSymbols = 0..(k - 1)
            /\ \A i \in 0..(k - 1) : roundSymbols[i] \in 0..(n - 1)
            /\ \A i, j \in 0..(k - 1) : i # j => roundSymbols[i] # roundSymbols[j]

\* Every draw returned index 0 for a full selection from 4 symbols: the
\* result is a permutation that is not the identity.
C13_Witness ==
    /\ pc = "chosen"
    /\ harnessCall.symbolsLength = 4
    /\ harnessCall.destinationLength = 4
    /\ \A i \in 0..3 : harnessCall.draws[i] = 0
    /\ roundSymbols[0] # 0

\* runGame is running or has returned.
InGame == pc \in {"game_loop", "round", "game_high_score", "game_seed", "game_returned"}

\* C14: in runGame the remaining lives are lifeCount less one for each lost
\* round, never below zero; no round runs with zero lives; the game is lost
\* exactly when the lost rounds have reached lifeCount, on the final round as
\* on any other; and after a lost round that leaves lives, with rounds still
\* to play, the next round is started and the game does not end.
C14_Lives ==
    InGame =>
        /\ remainingLives + lostRounds = runningProfile.lifeCount
        /\ lostRounds <= roundIndex
        /\ remainingLives >= 0 /\ remainingLives <= runningProfile.lifeCount
        /\ pc = "round" => (remainingLives >= 1 /\ ~gameLost)
        /\ pc # "round" => (gameLost <=> lostRounds = runningProfile.lifeCount)
        /\ (pc = "game_loop" /\ ~gameLost /\ roundIndex < runningProfile.roundCount) =>
                (ENABLED GameNextRound /\ ~ENABLED GameEnd)
        /\ (pc = "game_loop" /\ gameLost) => ~ENABLED GameNextRound

\* The second of two lives was lost on the final round of a two-round game.
C14_Witness ==
    /\ pc = "game_loop"
    /\ runningProfile.roundCount = 2
    /\ runningProfile.lifeCount = 2
    /\ roundIndex = 2
    /\ lostRounds = 2
    /\ remainingLives = 0
    /\ gameLost

\* C15: a game whose round count is the unbounded sentinel never leaves the
\* loop of runGame by running out of rounds: when it has ended, it was lost.
C15_UnboundedEndsOnlyLost ==
    (AfterGameEnd /\ runningProfile.roundCount = GAMEP_ROUND_COUNT_INF) => gameLost

(***************************************************************************)
(* Claims about the round state machine and timed input.                   *)
(***************************************************************************)
\* The edges the specification gives the state machine of runRound.
RoundEdges ==
    {<<"START", "INITIALISING">>,
     <<"INITIALISING", "DISPLAYING_SEQUENCE">>,
     <<"DISPLAYING_SEQUENCE", "GETTING_INPUT">>,
     <<"GETTING_INPUT", "TIMED_OUT">>,
     <<"GETTING_INPUT", "COMPARING_INPUT">>,
     <<"COMPARING_INPUT", "CORRECT_INPUT">>,
     <<"COMPARING_INPUT", "INCORRECT_INPUT">>,
     <<"CORRECT_INPUT", "GETTING_INPUT">>,
     <<"CORRECT_INPUT", "ROUND_WON">>,
     <<"TIMED_OUT", "ROUND_LOST">>,
     <<"INCORRECT_INPUT", "ROUND_LOST">>,
     <<"ROUND_WON", "END">>,
     <<"ROUND_LOST", "END">>}

\* C16: every step of runRound follows one of the listed edges, the round is
\* entered at START and left at END, the sequence is written only by the
\* step from INITIALISING, and no input has been read before the step from
\* DISPLAYING_SEQUENCE, which is taken once.
C16_RoundEdges ==
    [][/\ (pc = "round" /\ pc' = "round") => <<state, state'>> \in RoundEdges
       /\ (pc # "round" /\ pc' = "round") => state' = "START"
       /\ (pc = "round" /\ pc' # "round") => state = "END"
       /\ (pc = "round" /\ pc' = "round" /\ sequence' # sequence) => state = "INITIALISING"
       /\ (pc = "round" /\ pc' = "round" /\ roundSymbols' # roundSymbols) =>
                state = "INITIALISING"
       /\ (pc = "round" /\ state \in {"START", "INITIALISING", "DISPLAYING_SEQUENCE"}) =>
                (inputCount = 0 /\ inputCount' = 0)
       /\ (pc = "round" /\ state' = "DISPLAYING_SEQUENCE") => state = "INITIALISING"]_vars

\* A round was won: the cycle through GETTING_INPUT was taken four times.
C16_Witness ==
    /\ pc = "round"
    /\ state = "END"
    /\ roundWon
    /\ inputCount = 4
    /\ runningProfile.sequenceLength = 4

\* More than one button is held in the byte read from the shield.
SeveralButtons(in) ==
    in \notin {NONE_BUTTON, SELECT_BUTTON, RIGHT_BUTTON, DOWN_BUTTON, UP_BUTTON, LEFT_BUTTON}

\* C17: runRound returns true exactly when an input arrived in time for every
\* position of the sequence, in order, and the mapper of the profile took each
\* to the value of the symbol at its position (allMatched, over inputCount =
\* sequenceLength inputs); an input of several buttons at once is never taken
\* as correct and the round in which it is made is lost.
C17_WonIffAllInputsMatch ==
    /\ (pc = "round" /\ state = "END") =>
           /\ roundWon <=> (allMatched /\ inputCount = runningProfile.sequenceLength)
           /\ SeveralButtons(input) => ~roundWon
    /\ (pc = "round" /\ state \in {"CORRECT_INPUT", "ROUND_WON"}) =>
           ~SeveralButtons(input)
    /\ (pc = "round" /\ state = "INCORRECT_INPUT") => ~allMatched

\* The second input of a round was up and right together: the round is lost.
C17_Witness ==
    /\ pc = "round" /\ state = "END"
    /\ inputCount = 2
    /\ input = UP_BUTTON + RIGHT_BUTTON
    /\ ~roundWon
    /\ runningProfile.score = UL(150)

\* The player makes a debounced directional press before the deadline: a
\* direction button is read as down earlier than `deadline` milliseconds after
\* the call, after the buttons were let go if one was held at the call.
DebouncedPress(move, down, deadline) ==
    /\ HasDirection(move.pressed)
    /\ move.at < deadline
    /\ (~down \/ move.released)

\* C18: from GETTING_INPUT the round goes to TIMED_OUT exactly when the player
\* makes no debounced directional press before inputTime milliseconds have
\* elapsed, and to COMPARING_INPUT otherwise; NONE_BUTTON is returned exactly
\* when the reported time is at least the deadline, a registered press has a
\* reported latency below inputTime, and select alone never ends the wait.
C18_TimedInput ==
    [][(pc = "round" /\ state = "GETTING_INPUT"
            /\ harnessCall.op = "disp_timedButtonPress") =>
           LET move == harnessCall.move
               deadline == runningProfile.inputTime
           IN  /\ state' = IF DebouncedPress(move, buttonDown, deadline)
                           THEN "COMPARING_INPUT" ELSE "TIMED_OUT"
               /\ (input' = NONE_BUTTON) <=> (timeToInput' >= deadline)
               /\ (input' # NONE_BUTTON) => (timeToInput' < deadline)
               /\ (move.pressed = SELECT_BUTTON) => (input' = NONE_BUTTON)]_vars

\* The same statement for calls during which START_TIME + duration does not
\* pass the rollover of millis().
C18_TimedInputBeforeRollover ==
    [][(pc = "round" /\ state = "GETTING_INPUT"
            /\ harnessCall.op = "disp_timedButtonPress"
            /\ ULLess(harnessCall.move.startTime,
                      ULAdd(harnessCall.move.startTime, runningProfile.inputTime))) =>
           LET move == harnessCall.move
               deadline == runningProfile.inputTime
           IN  /\ state' = IF DebouncedPress(move, buttonDown, deadline)
                           THEN "COMPARING_INPUT" ELSE "TIMED_OUT"
               /\ (input' = NONE_BUTTON) <=> (timeToInput' >= deadline)
               /\ (input' # NONE_BUTTON) => (timeToInput' < deadline)
               /\ (move.pressed = SELECT_BUTTON) => (input' = NONE_BUTTON)]_vars

\* The player pressed right a quarter of a second after a call made
\* RolloverMargin milliseconds before the rollover: the round timed out with
\* no time reported.
C18_RolloverTimeout ==
    /\ pc = "round" /\ state = "TIMED_OUT"
    /\ harnessCall.op = "disp_timedButtonPress"
    /\ harnessCall.move.pressed = RIGHT_BUTTON
    /\ harnessCall.move.at = QuarterSecond
    /\ ~buttonDown
    /\ input = NONE_BUTTON
    /\ timeToInput = 0

\* C19: the score is 0 when runGame is entered, in Practice Mode and in every
\* difficulty of Story Mode, and no step of runGame or runRound lowers it.
C19_ScoreNeverDecreases ==
    [][/\ (pc = "menu" /\ pc' = "game_loop") => (Score' = UL(0))
       /\ (InGame /\ InGame') => ~ULLess(Score', Score)]_vars

\* A game of two rounds was lost in its second round after the first was won
\* slowly: the points of the first round are kept to the end.
C19_Witness ==
    /\ pc = "game_returned"
    /\ gameLost
    /\ roundIndex = 2
    /\ lostRounds = 1
    /\ runningProfile.sequenceLength = 4
    /\ Score = UL(4 * 150 + 50 * 4)

(***************************************************************************)
(* Claims about the complexity strategies.                                 *)
(***************************************************************************)
\* The four dimensions of a round profile.
Dimensions == {"sequenceLength", "uniqueSymbols", "displayTime", "inputTime"}

\* One increment of difficulty in each dimension.
DifficultyIncrement ==
    [sequenceLength |-> 1, uniqueSymbols |-> 1, displayTime |-> 0 - 250, inputTime |-> 0 - 250]

\* Every dimension of the profile is at its greatest difficulty.
ComplexityMaximised(profile) ==
    /\ profile.sequenceLength = ROUNDP_SEQUENCE_LENGTH_MAX
    /\ profile.uniqueSymbols = ROUNDP_UNIQUE_SYMBOLS_MAX
    /\ profile.displayTime = ROUNDP_DISPLAY_TIME_MIN
    /\ profile.inputTime = ROUNDP_INPUT_TIME_MIN

\* Exactly the dimension d differs between the profiles, by one increment.
OneIncrement(before, after) ==
    \E d \in Dimensions :
        /\ after[d] = before[d] + DifficultyIncrement[d]
        /\ \A e \in Dimensions \ {d} : after[e] = before[e]

\* C20: a call of randomRoundComplexity with roundNumber > 1 on a profile that
\* is not at its greatest difficulty in all four dimensions changes exactly
\* one dimension, by one increment (+1, +1, -250 ms, -250 ms), and leaves the
\* other three as they were.
C20_OneIncrement ==
    (pc = "complexity_returned" /\ harnessCall.roundNumber > 1
        /\ ~ComplexityMaximised(harnessCall.before)) =>
        OneIncrement(harnessCall.before, runningProfile)

\* The same statement for profiles whose times lie a whole number of 250 ms
\* increments above their minimum.
C20_OneIncrementOnQuarters ==
    (pc = "complexity_returned" /\ harnessCall.roundNumber > 1
        /\ ~ComplexityMaximised(harnessCall.before)
        /\ (harnessCall.before.displayTime - ROUNDP_DISPLAY_TIME_MIN) % 250 = 0
        /\ (harnessCall.before.inputTime - ROUNDP_INPUT_TIME_MIN) % 250 = 0) =>
        OneIncrement(harnessCall.before, runningProfile)

\* The display time was 700 ms and the draw was DISPLAY_TIME: the display time
\* is 500 ms and the input time 250 ms shorter as well.
C20_TwoDimensionsChanged ==
    /\ pc = "complexity_returned"
    /\ harnessCall.roundNumber > 1
    /\ harnessCall.draw = 2
    /\ harnessCall.before.displayTime = 700
    /\ runningProfile.displayTime = ROUNDP_DISPLAY_TIME_MIN
    /\ runningProfile.inputTime = harnessCall.before.inputTime - 250

\* C21: a call of randomRoundComplexity on a profile with sequenceLength 15,
\* uniqueSymbols 4, displayTime 500 and inputTime 500 returns the profile as
\* it was, whatever the round number and the draw; the profile after the call
\* is again such a profile, so the same holds of every call that follows.
C21_MaximisedIsFixed ==
    (pc = "complexity_returned" /\ ComplexityMaximised(harnessCall.before)) =>
        /\ runningProfile = harnessCall.before
        /\ ComplexityMaximised(runningProfile)

\* The strategy returned from a call in round 2 on the hardest profile with
\* the draw SEQUENCE_LENGTH, which ran through all four cases of the switch.
C21_Witness ==
    /\ pc = "complexity_returned"
    /\ harnessCall.roundNumber = 2
    /\ harnessCall.draw = 0
    /\ harnessCall.before.sequenceLength = 15
    /\ harnessCall.before.uniqueSymbols = 4
    /\ harnessCall.before.displayTime = 500
    /\ harnessCall.before.inputTime = 500
    /\ runningProfile.inputTime = 500

\* The limits of the fields of a game profile.
ProfileInRange(profile) ==
    /\ profile.sequenceLength \in 4..15
    /\ profile.uniqueSymbols \in 2..4
    /\ profile.displayTime \in 500..2500
    /\ profile.inputTime \in 500..3000
    /\ profile.lifeCount \in 1..10
    /\ profile.roundCount \in (1..100) \cup {GAMEP_ROUND_COUNT_INF}

\* C22: whatever the inputs to the configuration menu and the calls of the
\* initialisers and strategies, the configured profile and the profile of the
\* game keep every field within its limits, so that a round has no more
\* symbols to use than the length of its sequence or the size of the catalog.
C22_ProfileInRange ==
    (pc = "profile") =>
        /\ ProfileInRange(configProfile)
        /\ ProfileInRange(runningProfile)
        /\ runningProfile.uniqueSymbols <= runningProfile.sequenceLength
        /\ runningProfile.uniqueSymbols <= ROUNDP_SYMBOLS_LENGTH

\* A Practice game set to the shortest times with changing complexity has had
\* its strategy called for round 3, after LEFT was pressed on the Input Time
\* page at the minimum.
C22_Witness ==
    /\ pc = "profile"
    /\ harnessCall.started
    /\ harnessCall.inputs = MaxMenuInputs
    /\ runningProfile.gameTitle = "Practice"
    /\ runningProfile.isComplexityChanging
    /\ roundIndex = 3
    /\ configProfile.inputTime = ROUNDP_INPUT_TIME_MIN
    /\ runningProfile.inputTime = ROUNDP_INPUT_TIME_MIN
    /\ runningProfile.displayTime = ROUNDP_DISPLAY_TIME_MIN
    /\ runningProfile.sequenceLength = ROUNDP_SEQUENCE_LENGTH_MIN + 2

(***************************************************************************)
(* Claims about the profiles and the menus.                                *)
(***************************************************************************)
\* C23: no step from the start of a game to its return changes the configured
\* Practice profile, whose score is 0; a Practice game starts on a copy of
\* it and a Story game on the profile of its initialiser, with score 0.
C23_TemplateUntouched ==
    [][/\ (pc = "menu" \/ InGame) =>
            /\ configProfile' = configProfile
            /\ configProfile.score = UL(0)
       /\ (pc = "menu" /\ pc' = "game_loop") =>
            /\ Score' = UL(0)
            /\ (menuState = "PRACTICE") => (runningProfile' = configProfile)
            /\ (menuState = "STORY") =>
                   /\ runningProfile'.gameTitle
                          = CASE difficulty = "EASY"   -> "Easy"
                              [] difficulty = "MEDIUM" -> "Medium"
                              [] difficulty = "HARD"   -> "Hard"
                              [] difficulty = "MIRROR" -> "Mirror"
                   /\ runningProfile'.isComplexityChanging]_vars

\* A Practice game with changing complexity has returned with points and a
\* longer sequence than configured; the configured profile is as it was set.
C23_Witness ==
    /\ pc = "game_returned"
    /\ menuState = "PRACTICE"
    /\ configProfile.isComplexityChanging
    /\ configProfile.sequenceLength = ROUNDP_SEQUENCE_LENGTH_MIN
    /\ runningProfile.sequenceLength = ROUNDP_SEQUENCE_LENGTH_MIN + 1
    /\ configProfile.score = UL(0)
    /\ ULGreater(Score, UL(0))

(***************************************************************************)
(* Claims about the storage functions.                                     *)
(***************************************************************************)
\* Every cell of the storage outside the addresses in `range` is as before.
SameOutside(before, after, range) ==
    \A a \in (0..(EEPROM_LENGTH - 1)) \ range : EEPROM_read(after, a) = EEPROM_read(before, a)

\* The call leaves no room for the whole value inside the storage.
NoRoom ==
    \/ harnessCall.op = "unsigned long" /\ harnessCall.address > EEPROM_LENGTH - 4
    \/ harnessCall.op = "char" /\ harnessCall.address > EEPROM_LENGTH - 1

\* C24: at an address that leaves no room for the value (above length - 4
\* for an unsigned long, above length - 1 for a char) the write functions
\* leave every byte of the storage as it was and the read functions return
\* 0; eep_writeHighScore with a table index of 10 or more leaves every byte
\* as it was.
C24_OutOfRangeIgnored ==
    /\ (pc \in {"prim_written", "prim_read"} /\ NoRoom) =>
           SameOutside(lastCall.before, eeprom, {})
    /\ (pc = "prim_read" /\ NoRoom) =>
           CASE harnessCall.op = "unsigned long" -> harnessCall.result = UL(0)
             [] harnessCall.op = "char" -> harnessCall.result = 0
    /\ (pc \in {"prim_written", "prim_read"} /\ harnessCall.op = "HighScore"
            /\ harnessCall.tableIndex >= 10) =>
           SameOutside(lastCall.before, eeprom, {})

\* An unsigned long with four different bytes was written at length - 3 into
\* a storage holding the table, and read back as 0.
C24_Witness ==
    /\ pc = "prim_read"
    /\ harnessCall.op = "unsigned long"
    /\ harnessCall.address = EEPROM_LENGTH - 3
    /\ harnessCall.data = [hi |-> 258, lo |-> 772]
    /\ harnessCall.result = UL(0)
    /\ eeprom # ErasedEeprom

\* Bits 8i .. 8i+7 of the unsigned long v.
ByteOf(v, i) ==
    CASE i = 0 -> v.lo % 256
      [] i = 1 -> v.lo \div 256
      [] i = 2 -> v.hi % 256
      [] i = 3 -> v.hi \div 256

\* C25: an unsigned long written by eep_writeULong at an address with room
\* for it is returned by eep_readULong at that address, and the storage holds
\* its bytes least significant first (address + i holds bits 8i .. 8i+7); a
\* HighScore written by eep_writeHighScore at a table index 0..9 is returned
\* by eep_readHighScore at that index, score and all four alias bytes.
C25_RoundTrip ==
    /\ (pc = "prim_read" /\ harnessCall.op = "unsigned long"
            /\ harnessCall.address <= EEPROM_LENGTH - 4) =>
           /\ harnessCall.result = harnessCall.data
           /\ \A i \in 0..3 :
                  EEPROM_read(eeprom, harnessCall.address + i) = ByteOf(harnessCall.data, i)
    /\ (pc = "prim_read" /\ harnessCall.op = "HighScore"
            /\ harnessCall.tableIndex \in 0..9) =>
           /\ harnessCall.result.score = harnessCall.hs.score
           /\ \A i \in 1..4 : harnessCall.result.alias[i] = harnessCall.hs.alias[i]

\* A HighScore whose score has four different bytes and whose alias holds
\* negative chars was written at index 9 and read back.
C25_Witness ==
    /\ pc = "prim_read"
    /\ harnessCall.op = "HighScore"
    /\ harnessCall.tableIndex = 9
    /\ harnessCall.hs.score = [hi |-> 258, lo |-> 772]
    /\ harnessCall.hs.alias = <<0 - 1, 0 - 128, 127, 65>>
    /\ harnessCall.result = harnessCall.hs
    /\ EEPROM_read(eeprom, 76) = 4
    /\ EEPROM_read(eeprom, 79) = 1

\* The bytes of the seed and of record i of the table.
SeedBytes == 0..3

RecordBytes(i) == (4 + 8 * i)..(4 + 8 * i + 7)

\* C26: the seed is bytes 0..3 and record i of the table bytes 4+8i..4+8i+7,
\* 84 bytes in all, no two of them sharing a byte; eep_writeHighScore(h, i)
\* with 0 <= i <= 9 changes no byte outside record i and eep_writeSeed none
\* outside the seed.
C26_RecordsAndSeedApart ==
    /\ SeedBytes \cup UNION {RecordBytes(i) : i \in 0..9} = 0..83
    /\ \A i \in 0..9 :
           /\ RecordBytes(i) \cap SeedBytes = {}
           /\ \A j \in 0..9 : (i # j) => (RecordBytes(i) \cap RecordBytes(j) = {})
    /\ (pc \in {"prim_written", "prim_read"} /\ harnessCall.op = "HighScore"
            /\ harnessCall.tableIndex \in 0..9) =>
           /\ SameOutside(lastCall.before, eeprom, RecordBytes(harnessCall.tableIndex))
           /\ eep_readSeed(eeprom) = eep_readSeed(lastCall.before)
           /\ \A j \in (0..9) \ {harnessCall.tableIndex} :
                  eep_readHighScore(eeprom, j) = eep_readHighScore(lastCall.before, j)
    /\ (pc \in {"prim_written", "prim_read"} /\ harnessCall.op = "seed") =>
           /\ SameOutside(lastCall.before, eeprom, SeedBytes)
           /\ eep_readHighScoreTable(eeprom) = eep_readHighScoreTable(lastCall.before)

\* Record 1 of a table that holds ten records was overwritten by another
\* HighScore.
C26_Witness ==
    /\ pc = "prim_written"
    /\ harnessCall.op = "HighScore"
    /\ harnessCall.tableIndex = 1
    /\ tableInitialised
    /\ eep_readHighScore(eeprom, 1) = harnessCall.hs
    /\ eep_readHighScore(lastCall.before, 1) # harnessCall.hs
    /\ eep_readHighScore(eeprom, 0).score = UL(6500)

(***************************************************************************)
(* Claims about Reset System and the seed.                                 *)
(***************************************************************************)
\* The table Reset System leaves: 6000, 5500, ..., 1500, each with "JMT".
ResetTable ==
    [i \in 0..(EEP_HIGH_SCORE_TABLE_SIZE - 1) |->
        [score |-> UL(6000 - 500 * i), alias |-> <<74, 77, 84, 0>>]]

\* The storage after eep_initialiseHighScoreTable(); eep_writeSeed(0UL).
ResetImage(mem) == eep_writeSeed(eep_initialiseHighScoreTable(mem), UL(0))

C28_SeedWrittenLast ==
    /\ []((pc = "boot") => (rngSeed = NoSeed))
    /\ []((pc = "game_returned") => (eep_readSeed(eeprom) = rngSeed))
    /\ [][/\ (pc = "boot") => (rngSeed' = eep_readSeed(eeprom) /\ eeprom' = eeprom)
          /\ (pc \notin {"boot", "game_seed"}) => (rngSeed' = rngSeed)
          /\ (pc \notin {"boot", "menu", "game_seed"}) =>
                 \A a \in SeedBytes : EEPROM_read(eeprom', a) = EEPROM_read(eeprom, a)
          /\ (pc = "game_seed") =>
                 /\ pc' = "game_returned"
                 /\ \E nextSeed \in 0..15 : rngSeed' = UL(nextSeed)
                 /\ eep_readSeed(eeprom') = rngSeed'
                 /\ SameOutside(eeprom, eeprom', SeedBytes)
          /\ (pc' = "game_seed") => (pc = "game_high_score")
          /\ (pc = "game_returned") => (eeprom' = eeprom)]_vars

\* A game has returned after its score was entered in the table that Reset
\* System had left, and the seed 15 was stored over the seed 0.
C28_Witness ==
    /\ pc = "game_returned"
    /\ tableAtEntry = ResetTable
    /\ HighScoreTable # tableAtEntry
    /\ HighScoreTable[9].score = UL(2000)
    /\ rngSeed = UL(15)
    /\ eep_readSeed(eeprom) = UL(15)

(***************************************************************************)
(* Claims about the input mappers.                                         *)
(***************************************************************************)
DirectionButtons == {RIGHT_BUTTON, DOWN_BUTTON, UP_BUTTON, LEFT_BUTTON}

\* The button of the opposite direction.
OppositeButton(b) ==
    CASE b = RIGHT_BUTTON -> LEFT_BUTTON
      [] b = LEFT_BUTTON  -> RIGHT_BUTTON
      [] b = DOWN_BUTTON  -> UP_BUTTON
      [] b = UP_BUTTON    -> DOWN_BUTTON

\* The button that stands for an arrow's value.
ButtonOfValue(value) == CHOOSE b \in DirectionButtons : inputToArrowSymbol(b) = value

\* C29: mirrorInputToArrowSymbol gives for each direction button the value
\* inputToArrowSymbol gives for the opposite button; mirroring a direction
\* twice gives the direction back; every other byte maps to 0 in both
\* mappers; and in a Mirror game the comparison of runRound finds an input
\* correct exactly when it is the button opposite to the displayed arrow.
C29_MirrorIsOpposite ==
    /\ \A d \in DirectionButtons :
           /\ mirrorInputToArrowSymbol(d) = inputToArrowSymbol(OppositeButton(d))
           /\ mirrorInputToArrowSymbol(d) # NoSymbolValue
           /\ ButtonOfValue(mirrorInputToArrowSymbol(
                                ButtonOfValue(mirrorInputToArrowSymbol(d)))) = d
    /\ \A in \in (0..255) \ DirectionButtons :
           /\ inputToArrowSymbol(in) = NoSymbolValue
           /\ mirrorInputToArrowSymbol(in) = NoSymbolValue
    /\ (/\ state \in {"CORRECT_INPUT", "INCORRECT_INPUT"}
        /\ runningProfile.inputToSymbolValue = "mirrorInputToArrowSymbol") =>
           (state = "CORRECT_INPUT" <=>
               /\ input \in DirectionButtons
               /\ OppositeButton(input) = ButtonOfValue(ArrowSymbolValue[sequence[inputCount - 1]]))

\* In a Mirror game the right arrow was displayed and the left button, pressed
\* for it, was found correct.
C29_Witness ==
    /\ state = "CORRECT_INPUT"
    /\ difficulty = "MIRROR"
    /\ runningProfile.inputToSymbolValue = "mirrorInputToArrowSymbol"
    /\ ArrowSymbolValue[sequence[inputCount - 1]] = "r"
    /\ input = LEFT_BUTTON

(***************************************************************************)
(* Claims about the order of equal scores.                                 *)
(***************************************************************************)
\* The slot of the table that holds the record r, which is in it once.
SlotOf(table, r) == CHOOSE i \in DOMAIN table : table[i] = r

\* The records at slots i and j of the table before the call kept their order.
KeptOrder(i, j) ==
    SlotOf(HighScoreTable, TableBefore[i]) < SlotOf(HighScoreTable, TableBefore[j])

\* Slots i < j of the table before the call hold different records with the
\* same score, and each is in the table once after the call.
TiedPair(i, j) ==
    /\ i < j
    /\ TableBefore[i].score = TableBefore[j].score
    /\ TableBefore[i] # TableBefore[j]
    /\ CountIn(HighScoreTable, TableBefore[i]) = 1
    /\ CountIn(HighScoreTable, TableBefore[j]) = 1

\* C30: after an insertion by eep_addHighScore, two records of the table
\* before the call that have equal scores and are both still in the table are
\* in the order they were in.
C30_StableResort ==
    (tableInitialised /\ lastCall.op = "add" /\ lastCall.ret) =>
        \A i, j \in 0..(EEP_HIGH_SCORE_TABLE_SIZE - 1) : TiedPair(i, j) => KeptOrder(i, j)

\* An insertion below two records with equal scores leaves them in their
\* order.
C30_StableBelowInsertion ==
    (tableInitialised /\ lastCall.op = "add" /\ lastCall.ret) =>
        \A i, j \in 0..(EEP_HIGH_SCORE_TABLE_SIZE - 1) :
            (TiedPair(i, j) /\ ~ULGreater(lastCall.arg.score, TableBefore[i].score))
                => KeptOrder(i, j)

\* An insertion above two records with equal scores has exchanged them.
C30_TiedRecordsExchanged ==
    /\ tableInitialised /\ lastCall.op = "add" /\ lastCall.ret
    /\ \E i, j \in 0..(EEP_HIGH_SCORE_TABLE_SIZE - 1) :
          /\ TiedPair(i, j)
          /\ ULGreater(lastCall.arg.score, TableBefore[i].score)
          /\ ~KeptOrder(i, j)

(***************************************************************************)
(* Claims about the shuffle and the generator's termination.               *)
(***************************************************************************)
\* symbolReferences after the first `steps` passes of the swapping loop.
ReferencesAfter(steps) ==
    ChooseSwap([i \in 0..(harnessCall.symbolsLength - 1) |-> i], harnessCall.draws, 0, steps)

\* C31: in chooseRandomSymbols the draw of step i lies in i..n-1, and the
\* reference put at position i by step i is the one returned at position i:
\* no later step moves it.
C31_PartialFisherYates ==
    pc = "chosen" =>
        \A i \in 0..(harnessCall.destinationLength - 1) :
            /\ harnessCall.draws[i] \in i..(harnessCall.symbolsLength - 1)
            /\ roundSymbols[i] = ReferencesAfter(i + 1)[i]

\* When every draw happens to lie in i..n-1, no fixed position is moved.
C31_FixedWhenDrawnAhead ==
    (pc = "chosen" /\ \A i \in 0..(harnessCall.destinationLength - 1) : harnessCall.draws[i] >= i) =>
        \A i \in 0..(harnessCall.destinationLength - 1) :
            roundSymbols[i] = ReferencesAfter(i + 1)[i]

\* Two of four symbols were chosen with the draws 1 and 0: step 1 moved the
\* reference that step 0 had put at position 0.
C31_FixedPositionMoved ==
    /\ pc = "chosen"
    /\ harnessCall.symbolsLength = 4
    /\ harnessCall.destinationLength = 2
    /\ harnessCall.draws[0] = 1 /\ harnessCall.draws[1] = 0
    /\ ReferencesAfter(1)[0] = 1
    /\ roundSymbols[0] = 0

\* A pass of generateSymbolSequence whose draws hold every symbol index.
CoveringPass == GeneratePass /\ pc' = "generated"

\* Whenever passes go on being made, a pass that holds every index is made.
FairPasses == SF_vars(CoveringPass)

\* The loop is left for k <= length; it is never left for k > length; every
\* pass draws the whole sequence again and the loop is left exactly when the
\* draws hold every symbol.
GenerateSafety ==
    /\ []((runningProfile.uniqueSymbols > runningProfile.sequenceLength) => (pc # "generated"))
    /\ [][(pc = "generate") =>
             /\ DOMAIN sequence' = 0..(runningProfile.sequenceLength - 1)
             /\ \A j \in DOMAIN sequence' :
                    \E s \in 0..(runningProfile.uniqueSymbols - 1) : sequence'[j] = roundSymbols[s]
             /\ (pc' = "generated") <=>
                    \A s \in 0..(runningProfile.uniqueSymbols - 1) :
                        \E j \in DOMAIN sequence' : sequence'[j] = roundSymbols[s]]_vars

GenerateReturns ==
    (pc = "generate" /\ runningProfile.uniqueSymbols <= runningProfile.sequenceLength)
        ~> (pc = "generated")

\* C32 as stated: if every symbol index is drawn infinitely often in every
\* position, generateSymbolSequence returns for k <= length; for k > length it
\* never returns; each rejected pass is followed by a draw of the whole
\* sequence.
C32_TerminatesOnFairDraws ==
    /\ FairDraws => GenerateReturns
    /\ GenerateSafety

\* C32: if a pass whose draws hold every symbol index is drawn infinitely
\* often, generateSymbolSequence returns for k <= length; for k > length it
\* never returns; each rejected pass is followed by a draw of the whole
\* sequence.
C32_TerminatesOnFairPasses ==
    /\ FairPasses => GenerateReturns
    /\ GenerateSafety

\* generateSymbolSequence has returned a sequence of four symbols that holds
\* each of the four chosen symbols once.
C32_Witness ==
    /\ pc = "generated"
    /\ runningProfile.uniqueSymbols = 4
    /\ runningProfile.sequenceLength = 4
    /\ \A i, j \in 0..3 : (i # j) => (sequence[i] # sequence[j])

(***************************************************************************)
(* Claims about the progression of the difficulty.                         *)
(***************************************************************************)
\* The four parameters of a round.
RoundParameters(profile) ==
    <<profile.sequenceLength, profile.uniqueSymbols, profile.displayTime, profile.inputTime>>

\* C33: with Changing Complexity on, the step of runGame that enters a round
\* applies the strategy once, to the number of the round counted from 1, and
\* it is taken only after runRound has returned from END, for a won and for a
\* lost round alike; no other step of the game changes the four parameters of
\* the round; with Changing Complexity off the parameters are those of the
\* start of the game throughout.
C33_StrategyOncePerRound ==
    /\ []((InGame /\ ~runningProfile.isComplexityChanging /\ menuState = "PRACTICE") =>
             (RoundParameters(runningProfile) = RoundParameters(configProfile)))
    /\ [][/\ (pc = "game_loop" /\ pc' = "round") =>
                 /\ state = "NONE"
                 /\ IF runningProfile.isComplexityChanging
                    THEN \E draw \in 0..3 :
                            runningProfile' =
                                changeRoundComplexity(runningProfile, roundIndex + 1, draw)
                    ELSE runningProfile' = runningProfile
          /\ (pc = "round" /\ pc' = "game_loop") => (state = "END" /\ roundIndex' = roundIndex + 1)
          /\ (InGame /\ ~(pc = "game_loop" /\ pc' = "round")) =>
                 (RoundParameters(runningProfile') = RoundParameters(runningProfile))]_vars

\* The second round of a Practice game with Changing Complexity on has been
\* entered after the first round was lost, and the strategy has made it
\* harder than the configured profile.
C33_Witness ==
    /\ pc = "round"
    /\ state = "START"
    /\ roundIndex = 1
    /\ lostRounds = 1
    /\ runningProfile.isComplexityChanging
    /\ RoundParameters(runningProfile) # RoundParameters(configProfile)

\* The profile a Story Mode game of the difficulty starts from.
StoryProfile(diff) ==
    CASE diff = "EASY"   -> initEasyGameProfile
      [] diff = "MEDIUM" -> initMediumGameProfile
      [] diff = "HARD"   -> initHardGameProfile
      [] diff = "MIRROR" -> initMirrorGameProfile

\* The rounds for which the switch of the mode's strategy assigns a field.
ListedRounds(diff) ==
    CASE diff = "EASY"   -> 3..10
      [] diff = "MEDIUM" -> 3..13
      [] diff = "HARD"   -> {3, 5, 6, 9, 10, 12, 14, 16, 18}

\* The profile of round n of the mode: the strategy applied for the rounds 1
\* to n in turn, with the same draw throughout.
RECURSIVE ProfileOfRound(_, _)
ProfileOfRound(diff, n) ==
    IF n = 0 THEN StoryProfile(diff)
    ELSE changeRoundComplexity(ProfileOfRound(diff, n - 1), n, 0)

\* C34: in an Easy, Medium or Hard game the four parameters of round n are
\* those the mode's strategy gives for the rounds 1..n, whatever was drawn and
\* whatever happened in the game; for rounds 1 and 2 and for every round the
\* mode's switch does not list they are the parameters of the round before.
C34_ParametersByModeAndRound ==
    (/\ pc = "profile" /\ harnessCall.started
     /\ menuState = "STORY" /\ difficulty \in {"EASY", "MEDIUM", "HARD"}) =>
        /\ RoundParameters(runningProfile)
               = RoundParameters(ProfileOfRound(difficulty, roundIndex))
        /\ (roundIndex >= 1 /\ roundIndex \notin ListedRounds(difficulty)) =>
               (RoundParameters(runningProfile)
                    = RoundParameters(ProfileOfRound(difficulty, roundIndex - 1)))

\* Round 18 of a Hard game: the last change of the mode has been made.
C34_Witness ==
    /\ pc = "profile" /\ harnessCall.started
    /\ menuState = "STORY" /\ difficulty = "HARD"
    /\ roundIndex = 18
    /\ RoundParameters(runningProfile) = <<10, 4, 500, 800>>

(***************************************************************************)
(* Claims about an insertion that loses its supply.                        *)
(***************************************************************************)
\* The table in storage while, or after, an insertion is interrupted.
InterruptedTable == eep_readHighScoreTable(eeprom)

\* The table the interrupted insertion found.
FoundTable == eep_readHighScoreTable(harnessCall.before)

\* The storage the insertion leaves when nothing interrupts it.
CompletedImage == harnessCall.completed

\* Number of slots of a table that hold the record r.
SlotsHolding(table, r) == Cardinality({i \in DOMAIN table : table[i] = r})

\* Slots that survive the insertion: all but the last.
KeptSlots == 0..(EEP_HIGH_SCORE_TABLE_SIZE - 2)

\* Number of times the record r is due in the table after the insertion.
SlotsDue(found, r) ==
    Cardinality({i \in KeptSlots : found[i] = r}) + (IF r = harnessCall.hs THEN 1 ELSE 0)

\* The record a slot held when the insertion began to write it: the last
\* slot holds the new entry once the sort begins.
HeldBefore(found, i) ==
    IF harnessCall.sorting /\ i = EEP_HIGH_SCORE_TABLE_SIZE - 1 THEN harnessCall.hs ELSE found[i]

\* The record the insertion is writing.
BeingWritten ==
    IF harnessCall.sorting THEN harnessCall.highScoreTablep[harnessCall.tableIndex]
    ELSE harnessCall.hs

\* The slot being written holds bytes of two records: what it holds is
\* neither the record it held nor the record being written.
HalfUpdated(table, found) ==
    /\ harnessCall.byteIndex > 0
    /\ table[harnessCall.tableIndex] # HeldBefore(found, harnessCall.tableIndex)
    /\ table[harnessCall.tableIndex] # BeingWritten

\* Some record has a smaller score than the record after it.
OutOfOrder(table) ==
    \E i \in KeptSlots : ULLess(table[i].score, table[i + 1].score)

\* The new entry is stored once more than it is due while a record that
\* the insertion keeps is stored less often than it is due.
NewTwiceOneMissing(table, found) ==
    /\ SlotsHolding(table, harnessCall.hs) > SlotsDue(found, harnessCall.hs)
    /\ \E j \in KeptSlots : SlotsHolding(table, found[j]) < SlotsDue(found, found[j])

HalfUpdatedRecord ==
    LET table == InterruptedTable
        found == FoundTable
    IN  Evaluated(table) /\ Evaluated(found) /\ HalfUpdated(table, found)

OrderViolated ==
    LET table == InterruptedTable
    IN  Evaluated(table) /\ OutOfOrder(table)

NewTwiceAndOneMissing ==
    LET table == InterruptedTable
        found == FoundTable
    IN  Evaluated(table) /\ Evaluated(found) /\ NewTwiceOneMissing(table, found)

\* Addresses whose byte differs between two storage contents.
BytesChanged(mem, after) ==
    {a \in DOMAIN mem \cup DOMAIN after : EEPROM_read(mem, a) # EEPROM_read(after, a)}

\* C35: the storage changes one byte at a time during eep_addHighScore, so
\* an interruption can fall between any two bytes; an interrupted insertion
\* whose storage is neither as it was found nor as the completed insertion
\* leaves it holds a half-updated record, or a table out of order, or the
\* new entry twice with a kept record missing; an insertion that is not
\* interrupted leaves what eep_addHighScore computes.
C35_InterruptedInsertion ==
    /\ [][AddHighScoreUpdate => Cardinality(BytesChanged(eeprom, eeprom')) <= 1]_vars
    /\ [](pc \in {"eep_writing", "eep_cut"} =>
            \/ eeprom = harnessCall.before
            \/ eeprom = CompletedImage
            \/ HalfUpdatedRecord
            \/ OrderViolated
            \/ NewTwiceAndOneMissing)
    /\ [][pc = "eep_writing" /\ pc' = "eep_idle" => eeprom' = CompletedImage]_vars

\* The supply failed at a point where the new entry is stored twice and a
\* record other than the evicted one is gone.
C35_Witness ==
    /\ pc = "eep_cut"
    /\ NewTwiceAndOneMissing
    /\ harnessCall.sorting

\* The supply failed inside the record being overwritten.
C35_HalfUpdatedReached ==
    /\ pc = "eep_cut"
    /\ HalfUpdatedRecord
    /\ ~OrderViolated
    /\ ~NewTwiceAndOneMissing

\* The supply failed with an ordered table of whole records that is neither
\* the found one nor the completed one.
C35_OrderOnlyReached ==
    /\ pc = "eep_cut"
    /\ OrderViolated
    /\ ~HalfUpdatedRecord
    /\ ~NewTwiceAndOneMissing

(***************************************************************************)
(* Claims about the loop of the random strategy and the direction of the   *)
(* changes of difficulty.                                                  *)
(***************************************************************************)
\* The while loop of randomRoundComplexity followed for at most fuel
\* iterations from the draw; complexityIncreased tells whether it was left.
RECURSIVE LoopWithin(_, _, _)
LoopWithin(profile, randomComplexity, fuel) ==
    IF fuel = 0
    THEN [profile |-> profile, randomComplexity |-> randomComplexity,
          complexityIncreased |-> FALSE]
    ELSE LET iteration == RandomComplexityIteration(profile, randomComplexity)
         IN  IF iteration.complexityIncreased THEN iteration
             ELSE LoopWithin(iteration.profile, iteration.randomComplexity, fuel - 1)

\* The dimension d of the profile after is strictly harder than in before.
StrictlyHarder(before, after, d) ==
    IF d \in {"sequenceLength", "uniqueSymbols"} THEN after[d] > before[d]
    ELSE after[d] < before[d]

\* C36: for every round profile within the limits, every round number and
\* every draw the while loop of randomRoundComplexity is left after finitely
\* many iterations, with the profile the call returns; when roundNumber > 1
\* and some dimension is not at its greatest difficulty, some dimension of
\* the returned profile is strictly harder than before.
C36_LoopEndsAndHardens ==
    (pc = "complexity_returned" /\ harnessCall.roundNumber > 1) =>
        LET left == LoopWithin(harnessCall.before, harnessCall.draw, MaxLoopIterations)
        IN  /\ left.complexityIncreased
            /\ left.profile = runningProfile
            /\ ~ComplexityMaximised(harnessCall.before) =>
                   \E d \in Dimensions : StrictlyHarder(harnessCall.before, runningProfile, d)

\* The call returned from a profile whose display time alone was above its
\* minimum, by less than an increment, with the draw INPUT_TIME: the loop
\* went from INPUT_TIME back to DISPLAY_TIME and on to INPUT_TIME again.
C36_Witness ==
    /\ pc = "complexity_returned"
    /\ harnessCall.roundNumber = 2
    /\ harnessCall.draw = 3
    /\ harnessCall.before.sequenceLength = ROUNDP_SEQUENCE_LENGTH_MAX
    /\ harnessCall.before.uniqueSymbols = ROUNDP_UNIQUE_SYMBOLS_MAX
    /\ harnessCall.before.displayTime = 600
    /\ harnessCall.before.inputTime = ROUNDP_INPUT_TIME_MIN
    /\ runningProfile.displayTime = ROUNDP_DISPLAY_TIME_MIN

\* No dimension of the profile after is easier than in before.
NoEasier(before, after) ==
    /\ after.sequenceLength >= before.sequenceLength
    /\ after.uniqueSymbols >= before.uniqueSymbols
    /\ after.displayTime <= before.displayTime
    /\ after.inputTime <= before.inputTime

\* C37: in the games of the four Story modes and of Practice mode, with any
\* configured profile, the call that prepares the next round never lowers
\* sequenceLength or uniqueSymbols and never raises displayTime or inputTime.
C37_NeverEasier ==
    [][(harnessCall.started /\ roundIndex' = roundIndex + 1) =>
           NoEasier(runningProfile, runningProfile')]_vars

\* Round 18 of a Hard game has been prepared: the sequence is longer and the
\* input time shorter than in round 17, the other two are as they were.
C37_Witness ==
    /\ pc = "profile"
    /\ harnessCall.started
    /\ runningProfile.changeRoundComplexity = "hardRoundComplexity"
    /\ roundIndex = 18
    /\ RoundParameters(runningProfile) = <<10, 4, 500, 800>>
    /\ NoEasier(ProfileOfRound("HARD", 17), runningProfile)
    /\ RoundParameters(ProfileOfRound("HARD", 17)) = <<9, 4, 500, 1000>>

(***************************************************************************)
(* Claims about the inputs of a round.                                     *)
(***************************************************************************)
\* The states of runRound that read sequence[inputCount - 1].
AccessingStates == {"TIMED_OUT", "COMPARING_INPUT", "CORRECT_INPUT", "INCORRECT_INPUT"}

\* C38: in the states of runRound that read sequence[inputCount - 1],
\* inputCount is at least 1 and at most sequenceLength, so the element read
\* is one of the sequence; an input is only asked for while fewer than
\* sequenceLength have been read, so a round reads at most sequenceLength.
C38_InputCountInSequence ==
    pc = "round" =>
        /\ state \in AccessingStates =>
               /\ 1 <= inputCount
               /\ inputCount <= runningProfile.sequenceLength
               /\ (inputCount - 1) \in DOMAIN sequence
        /\ state = "GETTING_INPUT" => inputCount < runningProfile.sequenceLength
        /\ inputCount <= runningProfile.sequenceLength

\* The last input of a sequence of more than one symbol ran out of time.
C38_Witness ==
    /\ pc = "round"
    /\ state = "TIMED_OUT"
    /\ inputCount = runningProfile.sequenceLength
    /\ inputCount > 1
    /\ DOMAIN sequence = 0..(inputCount - 1)

(***************************************************************************)
(* Claims about the seed.                                                  *)
(***************************************************************************)
\* The seeds 0..15 as unsigned long values.
SmallSeeds == {UL(seed) : seed \in 0..15}

\* C39: the bound of the draw, pow(2, sizeof(long)), is 16; the seed in
\* storage after a game is one of 0..15 and is the one handed to randomSeed;
\* whatever seed was stored before the game, each of 0..15 can be drawn, so a
\* seed of 0..15 stored before the game can be stored again.
C39_SeedBelowSixteen ==
    /\ pow(2, SIZEOF_LONG) = 16
    /\ pc = "game_returned" =>
          /\ eep_readSeed(eeprom) \in SmallSeeds
          /\ rngSeed = eep_readSeed(eeprom)
    /\ pc = "game_seed" =>
          /\ \A seed \in SmallSeeds : ENABLED (GameNextSeed /\ eep_readSeed(eeprom') = seed)
          /\ eep_readSeed(eeprom) \in SmallSeeds =>
                 ENABLED (GameNextSeed /\ eep_readSeed(eeprom') = eep_readSeed(eeprom))

\* A game has ended that found the seed 7 in storage and stored 7 again.
C39_Witness ==
    /\ pc = "game_returned"
    /\ harnessCall.before = UL(7)
    /\ eep_readSeed(eeprom) = UL(7)
    /\ rngSeed = UL(7)

(***************************************************************************)
(* Claims about the place of a new entry among equal scores.               *)
(***************************************************************************)
\* Number of records the insertion keeps whose score is not below score.
KeptNotBelow(score) ==
    Cardinality({i \in 0..(EEP_HIGH_SCORE_TABLE_SIZE - 2) : ~ULLess(TableBefore[i].score, score)})

\* Some record the table held before the call has the score of the new entry.
TiesWithStored ==
    \E i \in 0..(EEP_HIGH_SCORE_TABLE_SIZE - 1) : TableBefore[i].score = lastCall.arg.score

\* C40: when eep_addHighScore inserts an entry whose score some stored
\* records have, the records with that score or a greater one stay in their
\* slots and the new entry takes the slot after them, so it follows every
\* stored record with its score.
C40_NewEntryAfterTies ==
    (tableInitialised /\ lastCall.op = "add" /\ lastCall.ret /\ TiesWithStored) =>
        LET slot == KeptNotBelow(lastCall.arg.score)
        IN  /\ slot <= EEP_HIGH_SCORE_TABLE_SIZE - 1
            /\ HighScoreTable[slot] = lastCall.arg
            /\ \A i \in 0..(slot - 1) : HighScoreTable[i] = TableBefore[i]
            /\ \A i \in (slot + 1)..(EEP_HIGH_SCORE_TABLE_SIZE - 1) :
                   ULLess(HighScoreTable[i].score, lastCall.arg.score)

\* An entry with 6000 points was inserted into a table that held two
\* other records with 6000 points, and stands third.
C40_Witness ==
    /\ tableInitialised /\ lastCall.op = "add" /\ lastCall.ret
    /\ lastCall.arg.score = UL(6000)
    /\ TableBefore[0].score = UL(6000)
    /\ TableBefore[1].score = UL(6000)
    /\ TableBefore[2].score = UL(5500)
    /\ lastCall.arg \notin {TableBefore[0], TableBefore[1]}
    /\ HighScoreTable[2] = lastCall.arg
    /\ HighScoreTable[0] = TableBefore[0]
    /\ HighScoreTable[1] = TableBefore[1]

====
